---- MODULE Spec2Model ----
(***************************************************************************)
(* Polynomial-opening aggregation core of tachyon:                         *)
(*   - PolynomialOpeningGrouper  (crypto/commitments/polynomial_openings.h)*)
(*   - GroupedPolynomialOpenings (crypto/commitments/polynomial_openings.h)*)
(*   - lookup::halo2::Prover     (zk/lookup/halo2/prover_impl.h)           *)
(***************************************************************************)
EXTENDS Integers, Sequences, FiniteSets, TLC

(***************************************************************************)
(* Bounds of the model.                                                    *)
(***************************************************************************)
\* longest claim list handed to GroupByPolyAndPoints
MaxClaims == 2
\* number of storage locations that hold an evaluation point
NumPointAddrs == 4
\* number of distinct field values held by those locations
NumPointVals == 3
\* number of storage locations that hold a polynomial oracle
NumPolyAddrs == 3
\* number of distinct polynomials held by those locations
NumPolyVals == 2

(***************************************************************************)
(* The field F: a prime field, here of order Modulus.                      *)
(***************************************************************************)
Modulus == 5

F == 0 .. (Modulus - 1)

FAdd(a, b) == (a + b) % Modulus

FSub(a, b) == (a - b + Modulus) % Modulus

FMul(a, b) == (a * b) % Modulus

FInv(a) == CHOOSE b \in F : (a * b) % Modulus = 1

FDiv(a, b) == FMul(a, FInv(b))

(***************************************************************************)
(* Univariate dense polynomials over F: the sequence of coefficients,      *)
(* constant term first, without trailing zeros (the zero polynomial is     *)
(* the empty sequence).                                                    *)
(***************************************************************************)
\* the coefficients up to the last one that is not zero
PolyNormalize(p) ==
  LET nonzero == {i \in 1 .. Len(p) : p[i] # 0}
      degree == IF nonzero = {} THEN 0
                ELSE CHOOSE i \in nonzero : \A j \in nonzero : j <= i
  IN  SubSeq(p, 1, degree)

PolyCoeff(p, i) == IF i >= 1 /\ i <= Len(p) THEN p[i] ELSE 0

PolyMaxLen(p, q) == IF Len(p) >= Len(q) THEN Len(p) ELSE Len(q)

PolyAdd(p, q) ==
  PolyNormalize([i \in 1 .. PolyMaxLen(p, q) |-> FAdd(PolyCoeff(p, i), PolyCoeff(q, i))])

PolySub(p, q) ==
  PolyNormalize([i \in 1 .. PolyMaxLen(p, q) |-> FSub(PolyCoeff(p, i), PolyCoeff(q, i))])

PolyScale(p, c) == PolyNormalize([i \in 1 .. Len(p) |-> FMul(p[i], c)])

\* p(X) * X
PolyShift(p) == IF p = <<>> THEN <<>> ELSE <<0>> \o p

\* p(X) * (X - root)
PolyMulLinear(p, root) == PolySub(PolyShift(p), PolyScale(p, root))

RECURSIVE PolyEvaluate(_, _)
PolyEvaluate(p, x) ==
  IF p = <<>> THEN 0
  ELSE FAdd(p[1], FMul(x, PolyEvaluate(Tail(p), x)))

RECURSIVE PolyMul(_, _)
PolyMul(p, q) ==
  IF p = <<>> THEN <<>>
  ELSE PolyAdd(PolyScale(q, p[1]), PolyShift(PolyMul(Tail(p), q)))

\* Long division: the pair <<quotient, remainder>> with p = q * d + rem and
\* deg(rem) < deg(d); d is not the zero polynomial.
RECURSIVE PolyDivMod(_, _)
PolyDivMod(p, d) ==
  IF Len(p) < Len(d) THEN <<(<<>>), p>>
  ELSE LET k == Len(p) - Len(d)
           c == FDiv(p[Len(p)], d[Len(d)])
           term == PolyNormalize([i \in 1 .. (k + 1) |-> IF i = k + 1 THEN c ELSE 0])
           rest == PolySub(p, PolyMul(term, d))
           sub == PolyDivMod(rest, d)
       IN  <<PolyAdd(term, sub[1]), sub[2]>>

\* operator/= of the polynomial type: the quotient of the division.
PolyDiv(p, d) == PolyDivMod(p, d)[1]

\* Poly::FromRoots: the product of (X - root) over |roots|.
RECURSIVE FromRoots(_)
FromRoots(roots) ==
  IF roots = <<>> THEN <<1>>
  ELSE PolyMulLinear(FromRoots(Tail(roots)), Head(roots))

SeqRange(s) == {s[i] : i \in 1 .. Len(s)}

SeqDistinct(s) == \A i, j \in 1 .. Len(s) : s[i] = s[j] => i = j

\* The j-th Lagrange basis polynomial over |points|, scaled by |value|.
LagrangeBasis(points, j, value) ==
  LET others == SubSeq(points, 1, j - 1) \o SubSeq(points, j + 1, Len(points))
      num == FromRoots(others)
      den == PolyEvaluate(num, points[j])
  IN  PolyScale(num, FDiv(value, den))

RECURSIVE LagrangeSum(_, _, _)
LagrangeSum(points, evals, j) ==
  IF j = 0 THEN <<>>
  ELSE PolyAdd(LagrangeSum(points, evals, j - 1),
               LagrangeBasis(points, j, evals[j]))

\* math::LagrangeInterpolate: <<ok, poly>>; fails unless there is one value
\* per point and the points are pairwise distinct.
LagrangeInterpolate(points, evals) ==
  IF Len(points) # Len(evals) \/ ~SeqDistinct(points)
  THEN <<FALSE, <<>> >>
  ELSE <<TRUE, LagrangeSum(points, evals, Len(points))>>

\* Poly::LinearizeInPlace: polys[1] + r * polys[2] + r^2 * polys[3] + ...
\* accumulated from the last polynomial downwards.
RECURSIVE LinearizeInPlace(_, _)
LinearizeInPlace(polys, r) ==
  IF polys = <<>> THEN <<>>
  ELSE PolyAdd(Head(polys), PolyScale(LinearizeInPlace(Tail(polys), r), r))

(***************************************************************************)
(* Storage.  A point or an oracle is held by reference: the reference is   *)
(* the address of a location, and base::DeepRef compares two references    *)
(* by the values their locations hold.                                     *)
(***************************************************************************)
PointAddrs == 1 .. NumPointAddrs

\* the field value stored at a point location; locations beyond
\* NumPointVals hold a value that an earlier location holds too
PointMem(a) == (a - 1) % NumPointVals

\* the polynomials the oracle locations hold
PolyTable == << <<3, 2>>, <<1, 0, 1>>, <<4, 1>>, <<2>> >>

PolyAddrs == 1 .. NumPolyAddrs

\* the polynomial stored at an oracle location; locations beyond NumPolyVals
\* hold a polynomial that an earlier location holds too
PolyMem(a) == PolyTable[(((a - 1) % NumPolyVals) % Len(PolyTable)) + 1]

PointDeepRefEq(a, b) == PointMem(a) = PointMem(b)

PointDeepRefLess(a, b) == PointMem(a) < PointMem(b)

PolyDeepRefEq(a, b) == PolyMem(a) = PolyMem(b)

(***************************************************************************)
(* absl::btree_set<PointDeepRef>: the references in ascending order of     *)
(* the value they refer to, one reference per value.                       *)
(***************************************************************************)
BtreeContains(set, ref) == \E i \in 1 .. Len(set) : PointDeepRefEq(set[i], ref)

\* an insert that keeps arrival order instead of the order of the values
BtreeInsertUnordered(set, ref) ==
  IF BtreeContains(set, ref) THEN set ELSE Append(set, ref)

BtreeInsert(set, ref) ==
  IF BtreeContains(set, ref) THEN set
  ELSE LET below == Cardinality({i \in 1 .. Len(set) : PointDeepRefLess(set[i], ref)})
       IN  SubSeq(set, 1, below) \o <<ref>> \o SubSeq(set, below + 1, Len(set))

BtreeEq(s, t) ==
  /\ Len(s) = Len(t)
  /\ \A i \in 1 .. Len(s) : PointDeepRefEq(s[i], t[i])

(***************************************************************************)
(* State.                                                                  *)
(***************************************************************************)
VARIABLES
  \* PolynomialOpeningGrouper
  poly_openings,               \* the argument of the last GroupByPolyAndPoints
  grouped_poly_openings_vec_,  \* the grouper's list of groups
  super_point_set_,            \* the grouper's btree_set of all points
  calls,                       \* number of GroupByPolyAndPoints calls made
  aborted,                     \* a CHECK failed: the process is terminated
  \* GroupedPolynomialOpenings::CreateCombinedLowDegreeExtensions
  q_group,                \* index of the group last asked for its quotient, 0 if none
  q_r,                    \* the challenge r of that call
  low_degree_extensions,  \* the out-parameter of CreateCombinedLowDegreeExtensions
  q_n,                    \* the combined numerator N(X) of that call
  q_h,                    \* the polynomial CreateCombinedLowDegreeExtensions returned
  \* lookup::halo2::Prover, its ProverBase and its caller
  batch_mode,      \* PCS::kSupportsBatchMode of the build
  lookup_provers,  \* the vector of lookup provers, one per circuit instance
  blinder,         \* state of the ProverBase's blinder
  proof,           \* what the ProverBase has written to the proof
  batch_commits,   \* the BatchCommitAt calls made: slot index and polynomial
  commit_idx,      \* the caller's commit index
  openings,        \* the caller's vector of opening claims
  last_op,         \* the operation that produced the current state
  seed,            \* the transcript state the challenges are derived from
  pc,              \* the proof driver's position: stage and lookup prover
  history,         \* the prover operations invoked so far that returned
  \* circom::v1::R1CS and the buffer handed to its Read
  header,                   \* R1CSHeaderSection, its fields in declaration order
  constraints,              \* R1CSConstraintsSection::constraints
  wire_id_to_label_id_map,  \* R1CSWireId2LabelIdMapSection::label_ids
  buffer,                   \* the words of the buffer of the last Read
  read_result,              \* what the last Read returned, "none" before it
  \* one base::Parallelize invocation of a grand-product callback
  par_phase,       \* "idle", "denominator", "numerator" or "done"
  par_chunk_size,  \* the chunk size of the invocation
  par_values,      \* the vector the callbacks work on
  par_offsets,     \* per chunk, the number of loop iterations its callback made
  par_captured     \* the pairs and challenges the callbacks captured

grouperVars == <<poly_openings, grouped_poly_openings_vec_, super_point_set_,
                 calls, aborted>>

quotientVars == <<q_group, q_r, low_degree_extensions, q_n, q_h>>

proverVars == <<batch_mode, lookup_provers, blinder, proof, batch_commits,
                commit_idx, openings, last_op, seed, pc>>

r1csVars == <<header, constraints, wire_id_to_label_id_map, buffer, read_result>>

chunkVars == <<par_phase, par_chunk_size, par_values, par_offsets, par_captured>>

\* the state of the components an action of another component leaves alone
otherVars == <<history, r1csVars, chunkVars>>

(***************************************************************************)
(* PolynomialOpeningGrouper                                                *)
(***************************************************************************)

\* PolynomialOpening: oracle reference, point reference, claimed value
PolynomialOpening(o, p, v) == [poly_oracle |-> o, point |-> p, opening |-> v]

\* std::find_if over a vector of |n| elements of which those at the indices
\* |matches| satisfy the predicate: the first such index, n + 1 (end) if none
FindIf(n, matches) ==
  IF matches = {} THEN n + 1
  ELSE CHOOSE i \in matches : \A j \in matches : i <= j

\* GroupByPoly with a find_if that never finds: every claim opens a new entry
GroupByPolyStepAlwaysNew(st, poly_opening) ==
  [ret |-> Append(st.ret, [poly_oracle |-> poly_opening.poly_oracle,
                           points |-> BtreeInsert(<<>>, poly_opening.point)]),
   super_point_set_ |-> BtreeInsert(st.super_point_set_, poly_opening.point)]

\* GroupByPoly that records a point in super_point_set_ only for a new oracle
GroupByPolyStepSuperOnNew(st, poly_opening) ==
  LET it == FindIf(Len(st.ret),
                      {i \in 1 .. Len(st.ret) :
                         PolyDeepRefEq(st.ret[i].poly_oracle, poly_opening.poly_oracle)})
  IN  IF it # Len(st.ret) + 1
      THEN [ret |-> [st.ret EXCEPT ![it].points = BtreeInsert(@, poly_opening.point)],
            super_point_set_ |-> st.super_point_set_]
      ELSE [ret |-> Append(st.ret, [poly_oracle |-> poly_opening.poly_oracle,
                                    points |-> BtreeInsert(<<>>, poly_opening.point)]),
            super_point_set_ |-> BtreeInsert(st.super_point_set_, poly_opening.point)]

\* one iteration of the loop of GroupByPoly; |st| holds the local |ret| and
\* the member super_point_set_
GroupByPolyStep(st, poly_opening) ==
  LET it == FindIf(Len(st.ret),
                      {i \in 1 .. Len(st.ret) :
                         PolyDeepRefEq(st.ret[i].poly_oracle, poly_opening.poly_oracle)})
      super == BtreeInsert(st.super_point_set_, poly_opening.point)
  IN  IF it # Len(st.ret) + 1
      THEN [ret |-> [st.ret EXCEPT ![it].points = BtreeInsert(@, poly_opening.point)],
            super_point_set_ |-> super]
      ELSE [ret |-> Append(st.ret, [poly_oracle |-> poly_opening.poly_oracle,
                                    points |-> BtreeInsert(<<>>, poly_opening.point)]),
            super_point_set_ |-> super]

RECURSIVE GroupByPolyLoop(_, _, _)
GroupByPolyLoop(super, claims, n) ==
  IF n = 0 THEN [ret |-> <<>>, super_point_set_ |-> super]
  ELSE GroupByPolyStep(GroupByPolyLoop(super, claims, n - 1), claims[n])

\* GroupByPoly: the vector it returns and the super_point_set_ it leaves
GroupByPoly(super, claims) == GroupByPolyLoop(super, claims, Len(claims))

\* GroupByPoints that compares two point sets by the addresses they hold
GroupByPointsStepByAddress(ret, poly_oracle_grouped_pair) ==
  LET it == FindIf(Len(ret),
                      {i \in 1 .. Len(ret) :
                         ret[i].points = poly_oracle_grouped_pair.points})
  IN  IF it # Len(ret) + 1
      THEN [ret EXCEPT ![it].polys = Append(@, poly_oracle_grouped_pair.poly_oracle)]
      ELSE Append(ret, [points |-> poly_oracle_grouped_pair.points,
                        polys |-> <<poly_oracle_grouped_pair.poly_oracle>>])

GroupByPointsStep(ret, poly_oracle_grouped_pair) ==
  LET it == FindIf(Len(ret),
                      {i \in 1 .. Len(ret) :
                         BtreeEq(ret[i].points, poly_oracle_grouped_pair.points)})
  IN  IF it # Len(ret) + 1
      THEN [ret EXCEPT ![it].polys = Append(@, poly_oracle_grouped_pair.poly_oracle)]
      ELSE Append(ret, [points |-> poly_oracle_grouped_pair.points,
                        polys |-> <<poly_oracle_grouped_pair.poly_oracle>>])

RECURSIVE GroupByPointsLoop(_, _)
GroupByPointsLoop(by_poly, n) ==
  IF n = 0 THEN <<>>
  ELSE GroupByPointsStep(GroupByPointsLoop(by_poly, n - 1), by_poly[n])

GroupByPoints(by_poly) == GroupByPointsLoop(by_poly, Len(by_poly))

\* the value CHECK(it != end) guards; CheckFailed when the CHECK fails
CheckFailed == Modulus

GetOpeningFromPolyOpenings(claims, poly_oracle, point) ==
  LET it == FindIf(Len(claims),
                      {i \in 1 .. Len(claims) :
                         /\ PolyDeepRefEq(claims[i].poly_oracle, poly_oracle)
                         /\ PointDeepRefEq(claims[i].point, point)})
  IN  IF it = Len(claims) + 1 THEN CheckFailed ELSE claims[it].opening

\* the groups CreateMultiPolynomialOpenings pushes, in order
CreateMultiPolynomialOpenings(claims, by_points) ==
  [g \in 1 .. Len(by_points) |->
     LET points_vec == by_points[g].points
         polys == by_points[g].polys
     IN  [poly_openings_vec |->
            [k \in 1 .. Len(polys) |->
               [poly_oracle |-> polys[k],
                openings |-> [j \in 1 .. Len(points_vec) |->
                    GetOpeningFromPolyOpenings(claims, polys[k], points_vec[j])]]],
          point_refs |-> points_vec]]

GroupsCheckFailed(groups) ==
  \E g \in 1 .. Len(groups) :
    \E k \in 1 .. Len(groups[g].poly_openings_vec) :
      CheckFailed \in SeqRange(groups[g].poly_openings_vec[k].openings)

\* GroupByPolyAndPoints on a grouper that drops the groups of earlier calls
GroupByPolyAndPointsFromEmpty(claims) ==
  LET by_poly == GroupByPoly(super_point_set_, claims)
      by_points == GroupByPoints(by_poly.ret)
      groups == CreateMultiPolynomialOpenings(claims, by_points)
  IN  /\ ~aborted
      /\ poly_openings' = claims
      /\ calls' = calls + 1
      /\ super_point_set_' = by_poly.super_point_set_
      /\ IF GroupsCheckFailed(groups)
         THEN /\ aborted' = TRUE
              /\ UNCHANGED grouped_poly_openings_vec_
         ELSE /\ aborted' = FALSE
              /\ grouped_poly_openings_vec_' = groups

GroupByPolyAndPoints(claims) ==
  LET by_poly == GroupByPoly(super_point_set_, claims)
      by_points == GroupByPoints(by_poly.ret)
      groups == CreateMultiPolynomialOpenings(claims, by_points)
  IN  /\ ~aborted
      /\ poly_openings' = claims
      /\ calls' = calls + 1
      /\ super_point_set_' = by_poly.super_point_set_
      /\ IF GroupsCheckFailed(groups)
         THEN /\ aborted' = TRUE
              /\ UNCHANGED grouped_poly_openings_vec_
         ELSE /\ aborted' = FALSE
              /\ grouped_poly_openings_vec_' = grouped_poly_openings_vec_ \o groups

\* the claims a caller can build
OpeningVals(o, p) ==
  {PolyEvaluate(PolyMem(o), PointMem(p)), FAdd(PolyEvaluate(PolyMem(o), PointMem(p)), 1)}

AllOpenings ==
  {PolynomialOpening(o, p, v) : o \in PolyAddrs, p \in PointAddrs, v \in F}

Openings == {c \in AllOpenings : c.opening \in OpeningVals(c.poly_oracle, c.point)}

RECURSIVE SeqsUpTo(_, _)
SeqsUpTo(S, n) ==
  IF n = 0 THEN {<<>>}
  ELSE LET shorter == SeqsUpTo(S, n - 1)
       IN  shorter \cup {Append(s, x) : s \in {t \in shorter : Len(t) = n - 1}, x \in S}

OpeningLists == SeqsUpTo(Openings, MaxClaims)

GrouperInit ==
  /\ poly_openings = <<>>
  /\ grouped_poly_openings_vec_ = <<>>
  /\ super_point_set_ = <<>>
  /\ calls = 0
  /\ aborted = FALSE

\* a fresh grouper is asked once to group a claim list
GroupFresh ==
  /\ calls = 0
  /\ \E claims \in OpeningLists : GroupByPolyAndPoints(claims)
  /\ UNCHANGED quotientVars
  /\ UNCHANGED <<proverVars, otherVars>>

(***************************************************************************)
(* GroupedPolynomialOpenings: the combined quotient of one group.          *)
(***************************************************************************)

CreateOwnedPoints(group) ==
  [j \in 1 .. Len(group.point_refs) |-> PointMem(group.point_refs[j])]

\* the <<ok, poly>> results of the interpolations, one per oracle
CreateLowDegreeExtensions(group, owned_points) ==
  [i \in 1 .. Len(group.poly_openings_vec) |->
     LagrangeInterpolate(owned_points, group.poly_openings_vec[i].openings)]

\* combination that walks the numerators from the last oracle to the first
CombineLowDegreeExtensionsReversed(group, r, owned_points, ldes) ==
  LET size == Len(group.poly_openings_vec)
      numerators == [i \in 1 .. size |->
                       PolySub(PolyMem(group.poly_openings_vec[size + 1 - i].poly_oracle),
                               ldes[size + 1 - i])]
      n == LinearizeInPlace(numerators, r)
      vanishing_poly == FromRoots(owned_points)
  IN  [n |-> n, h |-> PolyDiv(n, vanishing_poly)]

\* the numerator N(X) and the returned quotient
CombineLowDegreeExtensions(group, r, owned_points, ldes) ==
  LET numerators == [i \in 1 .. Len(group.poly_openings_vec) |->
                       PolySub(PolyMem(group.poly_openings_vec[i].poly_oracle), ldes[i])]
      n == LinearizeInPlace(numerators, r)
      vanishing_poly == FromRoots(owned_points)
  IN  [n |-> n, h |-> PolyDiv(n, vanishing_poly)]

\* the method with the result of LagrangeInterpolate ignored
CreateCombinedLowDegreeExtensionsUnchecked(group, g, r) ==
  LET owned_points == CreateOwnedPoints(group)
      results == CreateLowDegreeExtensions(group, owned_points)
      ldes == [i \in 1 .. Len(results) |-> results[i][2]]
      combined == CombineLowDegreeExtensions(group, r, owned_points, ldes)
  IN  /\ ~aborted
      /\ q_group' = g
      /\ q_r' = r
      /\ aborted' = FALSE
      /\ low_degree_extensions' = ldes
      /\ q_n' = combined.n
      /\ q_h' = combined.h
      /\ UNCHANGED <<poly_openings, grouped_poly_openings_vec_, super_point_set_, calls>>

\* the method called on |group|, the g-th group its caller holds
CreateCombinedLowDegreeExtensions(group, g, r) ==
  LET owned_points == CreateOwnedPoints(group)
      results == CreateLowDegreeExtensions(group, owned_points)
      ldes == [i \in 1 .. Len(results) |-> results[i][2]]
      combined == CombineLowDegreeExtensions(group, r, owned_points, ldes)
  IN  /\ ~aborted
      /\ q_group' = g
      /\ q_r' = r
      /\ IF \E i \in 1 .. Len(results) : ~results[i][1]
         THEN /\ aborted' = TRUE
              /\ UNCHANGED <<low_degree_extensions, q_n, q_h>>
         ELSE /\ aborted' = FALSE
              /\ low_degree_extensions' = ldes
              /\ q_n' = combined.n
              /\ q_h' = combined.h
      /\ UNCHANGED <<poly_openings, grouped_poly_openings_vec_, super_point_set_, calls>>

QuotientInit ==
  /\ q_group = 0
  /\ q_r = 0
  /\ low_degree_extensions = <<>>
  /\ q_n = <<>>
  /\ q_h = <<>>

\* longest claim list grouped before quotients are built
MaxQuotientClaims == 2
\* number of point locations and of oracle locations those claims refer to
MaxQuotientPoints == 2
MaxQuotientPolys == 2

QuotientOpenings ==
  {c \in Openings : c.poly_oracle <= MaxQuotientPolys /\ c.point <= MaxQuotientPoints}

\* the quotient builder takes the groups of a fresh grouper
GroupForQuotient ==
  /\ calls = 0
  /\ \E claims \in SeqsUpTo(QuotientOpenings, MaxQuotientClaims) :
       GroupByPolyAndPoints(claims)
  /\ UNCHANGED quotientVars
  /\ UNCHANGED <<proverVars, otherVars>>

(***************************************************************************)
(* A caller that keeps one grouper and hands it the claims of one round    *)
(* after the other.                                                        *)
(***************************************************************************)
\* largest number of GroupByPolyAndPoints calls on one grouper
MaxCalls == 3
\* largest number of openings a grouper holds in its groups
MaxHeldOpenings == 2

\* the claims of a round: the value of the oracle at the point
RoundOpenings ==
  {c \in QuotientOpenings :
     c.opening = PolyEvaluate(PolyMem(c.poly_oracle), PointMem(c.point))}

\* the number of openings the groups |groups| hold
RECURSIVE HeldOpenings(_)
HeldOpenings(groups) ==
  IF groups = <<>> THEN 0
  ELSE Len(Head(groups).poly_openings_vec) * Len(Head(groups).point_refs)
         + HeldOpenings(Tail(groups))

\* the grouper, fresh or not, is asked to group a claim list
GroupAgain ==
  /\ calls < MaxCalls
  /\ \E claims \in SeqsUpTo(RoundOpenings, MaxClaims) :
       /\ HeldOpenings(grouped_poly_openings_vec_) + Len(claims) <= MaxHeldOpenings
       /\ GroupByPolyAndPoints(claims)
  /\ UNCHANGED quotientVars
  /\ UNCHANGED <<proverVars, otherVars>>

\* a group of the grouper is asked for its combined quotient; a run of the
\* quotient builder follows one such call
BuildQuotient ==
  /\ calls = 1
  /\ q_group = 0
  /\ \E g \in 1 .. Len(grouped_poly_openings_vec_) : \E r \in F :
       CreateCombinedLowDegreeExtensions(grouped_poly_openings_vec_[g], g, r)
  /\ UNCHANGED <<proverVars, otherVars>>

\* the groups a caller builds with the constructor of GroupedPolynomialOpenings
\* instead of a grouper: one oracle opened, with its true values, at two point
\* references, which may refer to the same point
NumHandBuiltGroups == MaxQuotientPolys * MaxQuotientPoints * MaxQuotientPoints

HandBuiltGroup(g) ==
  LET code == g - 1
      first == (code % MaxQuotientPoints) + 1
      second == ((code \div MaxQuotientPoints) % MaxQuotientPoints) + 1
      oracle == (code \div (MaxQuotientPoints * MaxQuotientPoints)) + 1
  IN  [poly_openings_vec |->
         << [poly_oracle |-> oracle,
             openings |-> << PolyEvaluate(PolyMem(oracle), PointMem(first)),
                             PolyEvaluate(PolyMem(oracle), PointMem(second)) >>] >>,
       point_refs |-> <<first, second>>]

\* the combined quotient of a hand-built group is asked for, no grouper used
BuildHandBuiltQuotient ==
  /\ calls = 0
  /\ q_group = 0
  /\ \E g \in 1 .. NumHandBuiltGroups : \E r \in F :
       CreateCombinedLowDegreeExtensions(HandBuiltGroup(g), g, r)

(***************************************************************************)
(* lookup::halo2::Prover.  The evaluation domain has DomainSize rows, the  *)
(* powers of Omega; an Evals is one field value per row.                   *)
(***************************************************************************)
\* largest number of lookup provers (circuit instances) of a proof
MaxProvers == 2
\* largest number of lookup arguments of the circuit
MaxArguments == 2
\* largest commit_idx the caller hands to the first batch commit
MaxCommitStart == 1
\* number of transcript states the verifier challenges are derived from
NumChallenges == 2
\* number of rows one chunk of a parallelized callback covers
ChunkSize == 2

Omega == 2

DomainSize == 4

Rows == 1 .. DomainSize

\* the domain elements Omega^0 .. Omega^(DomainSize - 1)
RECURSIVE DomainElement(_)
DomainElement(i) == IF i = 1 THEN 1 ELSE FMul(Omega, DomainElement(i - 1))

DomainElements == [i \in Rows |-> DomainElement(i)]

\* the k-th challenge squeezed from a transcript in state |t|: a nonzero
\* field value
Challenge(t, k) == ((t + 2 * k) % (Modulus - 1)) + 1

\* the columns of the table of each circuit instance (plonk::RefTable)
Tables ==
  << << <<1, 2, 3, 1>>, <<1, 2, 3, 4>>, <<2, 2, 1, 3>> >>,
     << <<3, 3, 1, 2>>, <<1, 2, 3, 4>>, <<4, 1, 1, 1>> >>,
     << <<2, 4, 4, 2>>, <<1, 2, 3, 4>>, <<3, 3, 3, 3>> >> >>

TableOf(p) == Tables[((p - 1) % Len(Tables)) + 1]

\* LookupArgument: input and table expressions; an expression queries one
\* column of the instance's table
Arguments ==
  << [input_expressions |-> <<1>>, table_expressions |-> <<2>>],
     [input_expressions |-> <<3>>, table_expressions |-> <<2>>],
     [input_expressions |-> <<1, 3>>, table_expressions |-> <<2, 2>>] >>

ArgumentLists == SeqsUpTo(SeqRange(Arguments), MaxArguments)

\* SimpleEvaluator over one instance's table: the evaluations of an expression
EvaluateExpression(expression, table) == table[expression]

\* CompressExpressions: theta^(m-1) e_0 + ... + theta e_(m-2) + e_(m-1)
RECURSIVE CompressExpressions(_, _, _, _)
CompressExpressions(expressions, theta, table, m) ==
  IF m = 0 THEN [i \in Rows |-> 0]
  ELSE LET acc == CompressExpressions(expressions, theta, table, m - 1)
           e == EvaluateExpression(expressions[m], table)
       IN  [i \in Rows |-> FAdd(FMul(acc[i], theta), e[i])]

LookupPair(in, tb) == [input |-> in, table |-> tb]

CompressPair(argument, theta, table) ==
  LookupPair(CompressExpressions(argument.input_expressions, theta, table,
                                 Len(argument.input_expressions)),
             CompressExpressions(argument.table_expressions, theta, table,
                                 Len(argument.table_expressions)))

\* ascending sort of a sequence of field values
RECURSIVE SortAscending(_)
SortAscending(s) ==
  IF s = <<>> THEN <<>>
  ELSE LET rest == SortAscending(Tail(s))
           below == Cardinality({i \in 1 .. Len(rest) : rest[i] < Head(s)})
       IN  SubSeq(rest, 1, below) \o <<Head(s)>> \o SubSeq(rest, below + 1, Len(rest))

\* |s| without the first occurrence of each value of |vals|
RECURSIVE RemoveOnce(_, _)
RemoveOnce(s, vals) ==
  IF s = <<>> THEN <<>>
  ELSE IF Head(s) \in vals THEN RemoveOnce(Tail(s), vals \ {Head(s)})
  ELSE <<Head(s)>> \o RemoveOnce(Tail(s), vals)

\* PermuteExpressionPair: <<ok, pair>>.  A' is the input sorted; S' holds the
\* value of A' in each row that starts a run of equal values of A' and the
\* unused table values in the other rows.  Fails when a value of the input
\* is not a value of the table.
PermuteExpressionPair(compressed_pair) ==
  LET sorted_input == SortAscending(compressed_pair.input)
      leftover == RemoveOnce(SortAscending(compressed_pair.table), SeqRange(sorted_input))
      IsRunStart(i) == i = 1 \/ sorted_input[i] # sorted_input[i - 1]
      repeats(i) == Cardinality({j \in 1 .. i : ~IsRunStart(j)})
      permuted_table == [i \in Rows |->
                           IF IsRunStart(i) THEN sorted_input[i]
                           ELSE leftover[repeats(i)]]
  IN  IF SeqRange(compressed_pair.input) \subseteq SeqRange(compressed_pair.table)
      THEN <<TRUE, LookupPair(sorted_input, permuted_table)>>
      ELSE <<FALSE, LookupPair(<<>>, <<>>)>>

\* BlindedPolynomial: evaluation form, coefficient form, blinding scalar
BlindedPolynomial(evals, blind) == [evals |-> evals, poly |-> <<>>, blind |-> blind]

\* Blinder::Generate from the blinder state |b|
BlinderGenerate(b) == (3 * b + 1) % Modulus

\* PermutePair with the blinder in state |b|: <<ok, pair of blinded polys>>
PermutePair(compressed_pair, b) ==
  LET res == PermuteExpressionPair(compressed_pair)
  IN  <<res[1],
        LookupPair(BlindedPolynomial(res[2].input, BlinderGenerate(b)),
                   BlindedPolynomial(res[2].table, BlinderGenerate(b + 1)))>>

\* the rows of chunk |chunk_index| of a vector of DomainSize values
ChunkRows(chunk_index, chunk_size) ==
  {i \in Rows : i > chunk_index * chunk_size /\ i <= (chunk_index + 1) * chunk_size}

NumChunks(chunk_size) == (DomainSize + chunk_size - 1) \div chunk_size

\* the callback of CreateNumeratorCallback applied to one chunk of |values|
NumeratorCallback(compressed_pair, beta, gamma, values, chunk_index, chunk_size) ==
  [i \in Rows |->
     IF i \in ChunkRows(chunk_index, chunk_size)
     THEN FMul(FMul(values[i], FAdd(compressed_pair.input[i], beta)),
               FAdd(compressed_pair.table[i], gamma))
     ELSE values[i]]

\* the callback of CreateDenominatorCallback applied to one chunk of |values|
DenominatorCallback(permuted_pair, beta, gamma, values, chunk_index, chunk_size) ==
  [i \in Rows |->
     IF i \in ChunkRows(chunk_index, chunk_size)
     THEN FMul(FAdd(permuted_pair.input.evals[i], beta),
               FAdd(permuted_pair.table.evals[i], gamma))
     ELSE values[i]]

\* base::Parallelize: the callback runs on every chunk
RECURSIVE ParallelizeNumerator(_, _, _, _, _)
ParallelizeNumerator(compressed_pair, beta, gamma, values, chunks) ==
  IF chunks = 0 THEN values
  ELSE NumeratorCallback(compressed_pair, beta, gamma,
         ParallelizeNumerator(compressed_pair, beta, gamma, values, chunks - 1),
         chunks - 1, ChunkSize)

RECURSIVE ParallelizeDenominator(_, _, _, _, _)
ParallelizeDenominator(permuted_pair, beta, gamma, values, chunks) ==
  IF chunks = 0 THEN values
  ELSE DenominatorCallback(permuted_pair, beta, gamma,
         ParallelizeDenominator(permuted_pair, beta, gamma, values, chunks - 1),
         chunks - 1, ChunkSize)

\* batch inversion leaves a zero in place
FInvOrZero(a) == IF a = 0 THEN 0 ELSE FInv(a)

\* running product: z[1] = 1, z[i + 1] = z[i] * ratios[i]
RECURSIVE RunningProduct(_, _)
RunningProduct(ratios, i) ==
  IF i = 1 THEN 1 ELSE FMul(RunningProduct(ratios, i - 1), ratios[i - 1])

\* plonk::GrandProductArgument::CreatePoly: the denominators, inverted, times
\* the numerators, accumulated
GrandProductCreatePoly(compressed_pair, permuted_pair, beta, gamma) ==
  LET zeros == [i \in Rows |-> 0]
      dens == ParallelizeDenominator(permuted_pair, beta, gamma, zeros,
                                     NumChunks(ChunkSize))
      invs == [i \in Rows |-> FInvOrZero(dens[i])]
      ratios == ParallelizeNumerator(compressed_pair, beta, gamma, invs,
                                     NumChunks(ChunkSize))
  IN  [i \in Rows |-> RunningProduct(ratios, i)]

\* CreateGrandProductPoly with the blinder in state |b|
CreateGrandProductPoly(compressed_pair, permuted_pair, beta, gamma, b) ==
  BlindedPolynomial(GrandProductCreatePoly(compressed_pair, permuted_pair, beta, gamma),
                    BlinderGenerate(b))

\* BlindedPolynomial::TransformEvalsToPoly: the inverse FFT moves the
\* evaluation form into the coefficient form
TransformBlinded(bp) ==
  [evals |-> <<>>,
   poly |-> IF Len(bp.evals) = DomainSize
            THEN LagrangeInterpolate(DomainElements, bp.evals)[2]
            ELSE <<>>,
   blind |-> bp.blind]

ProverIdx == 1 .. Len(lookup_provers)

NewProver == [compressed_pairs_ |-> <<>>, permuted_pairs_ |-> <<>>,
              grand_product_polys_ |-> <<>>]

\* CompressPairs of one lookup prover
CompressPairs(prover, arguments, theta, table) ==
  [prover EXCEPT !.compressed_pairs_ =
     [i \in 1 .. Len(arguments) |-> CompressPair(arguments[i], theta, table)]]

BatchCompressPairs(arguments, theta) ==
  /\ ~aborted
  /\ lookup_provers' = [p \in ProverIdx |->
                          CompressPairs(lookup_provers[p], arguments, theta, TableOf(p))]
  /\ last_op' = <<"BatchCompressPairs", 0>>
  /\ UNCHANGED <<batch_mode, blinder, proof, batch_commits, commit_idx, openings>>

PermutePairs(p) ==
  LET compressed == lookup_provers[p].compressed_pairs_
      results == [i \in 1 .. Len(compressed) |->
                    PermutePair(compressed[i], blinder + 2 * (i - 1))]
  IN  /\ ~aborted
      /\ last_op' = <<"PermutePairs", p>>
      /\ IF \E i \in 1 .. Len(results) : ~results[i][1]
         THEN /\ aborted' = TRUE
              /\ UNCHANGED <<lookup_provers, blinder>>
         ELSE /\ aborted' = FALSE
              /\ lookup_provers' = [lookup_provers EXCEPT ![p].permuted_pairs_ =
                                      [i \in 1 .. Len(results) |-> results[i][2]]]
              /\ blinder' = blinder + 2 * Len(compressed)
      /\ UNCHANGED <<batch_mode, proof, batch_commits, commit_idx, openings>>

\* the loop of BatchCommitPermutedPairs with the table committed before the
\* input
RECURSIVE PermutedEvalsOfProverTableFirst(_, _)
PermutedEvalsOfProverTableFirst(pairs, n) ==
  IF n = 0 THEN <<>>
  ELSE PermutedEvalsOfProverTableFirst(pairs, n - 1)
         \o <<pairs[n].table.evals, pairs[n].input.evals>>

\* the polynomials the two loops of BatchCommitPermutedPairs visit, in order
RECURSIVE PermutedEvalsOfProver(_, _)
PermutedEvalsOfProver(pairs, n) ==
  IF n = 0 THEN <<>>
  ELSE PermutedEvalsOfProver(pairs, n - 1)
         \o <<pairs[n].input.evals, pairs[n].table.evals>>

RECURSIVE PermutedEvalsInOrder(_, _)
PermutedEvalsInOrder(provers, n) ==
  IF n = 0 THEN <<>>
  ELSE PermutedEvalsInOrder(provers, n - 1)
         \o PermutedEvalsOfProver(provers[n].permuted_pairs_,
                                  Len(provers[n].permuted_pairs_))

RECURSIVE GrandProductEvalsInOrder(_, _)
GrandProductEvalsInOrder(provers, n) ==
  IF n = 0 THEN <<>>
  ELSE GrandProductEvalsInOrder(provers, n - 1)
         \o [i \in 1 .. Len(provers[n].grand_product_polys_) |->
               provers[n].grand_product_polys_[i].evals]

\* ProverBase::BatchCommitAt(evals, idx), once per polynomial, idx = start++
BatchCommitAll(polys, start) ==
  [k \in 1 .. Len(polys) |-> [idx |-> start + k - 1, evals |-> polys[k]]]

\* ProverBase::CommitAndWriteToProof(evals), once per polynomial
CommitAndWriteAll(polys) ==
  [k \in 1 .. Len(polys) |-> [kind |-> "commit", prover |-> 0, query |-> <<>>,
                              value |-> polys[k]]]

BatchCommit(polys) ==
  IF Len(lookup_provers) = 0
  THEN UNCHANGED <<batch_commits, commit_idx, proof>>
  ELSE IF batch_mode
       THEN /\ batch_commits' = batch_commits \o BatchCommitAll(polys, commit_idx)
            /\ commit_idx' = commit_idx + Len(polys)
            /\ UNCHANGED proof
       ELSE /\ proof' = proof \o CommitAndWriteAll(polys)
            /\ UNCHANGED <<batch_commits, commit_idx>>

BatchCommitPermutedPairs ==
  /\ ~aborted
  /\ BatchCommit(PermutedEvalsInOrder(lookup_provers, Len(lookup_provers)))
  /\ last_op' = <<"BatchCommitPermutedPairs", 0>>
  /\ UNCHANGED <<batch_mode, lookup_provers, blinder, openings>>

\* CreateGrandProductPolys pairing the i-th compressed pair with the permuted
\* pair at the mirrored index
CreateGrandProductPolysMirrored(p, beta, gamma) ==
  LET prover == lookup_provers[p]
      size == Len(prover.compressed_pairs_)
  IN  /\ ~aborted
      /\ last_op' = <<"CreateGrandProductPolys", p>>
      /\ IF size # Len(prover.permuted_pairs_)
         THEN /\ aborted' = TRUE
              /\ UNCHANGED <<lookup_provers, blinder>>
         ELSE /\ aborted' = FALSE
              /\ lookup_provers' =
                   [lookup_provers EXCEPT
                      ![p].grand_product_polys_ =
                         [i \in 1 .. size |->
                            CreateGrandProductPoly(prover.compressed_pairs_[i],
                                                   prover.permuted_pairs_[size + 1 - i],
                                                   beta, gamma, blinder + i - 1)],
                      ![p].compressed_pairs_ = <<>>]
              /\ blinder' = blinder + size
      /\ UNCHANGED <<batch_mode, proof, batch_commits, commit_idx, openings>>

\* CreateGrandProductPolys without the clear() of compressed_pairs_
CreateGrandProductPolysKeepingPairs(p, beta, gamma) ==
  LET prover == lookup_provers[p]
      size == Len(prover.compressed_pairs_)
  IN  /\ ~aborted
      /\ last_op' = <<"CreateGrandProductPolys", p>>
      /\ IF size # Len(prover.permuted_pairs_)
         THEN /\ aborted' = TRUE
              /\ UNCHANGED <<lookup_provers, blinder>>
         ELSE /\ aborted' = FALSE
              /\ lookup_provers' =
                   [lookup_provers EXCEPT
                      ![p].grand_product_polys_ =
                         [i \in 1 .. size |->
                            CreateGrandProductPoly(prover.compressed_pairs_[i],
                                                   prover.permuted_pairs_[i],
                                                   beta, gamma, blinder + i - 1)]]
              /\ blinder' = blinder + size
      /\ UNCHANGED <<batch_mode, proof, batch_commits, commit_idx, openings>>

CreateGrandProductPolys(p, beta, gamma) ==
  LET prover == lookup_provers[p]
      size == Len(prover.compressed_pairs_)
  IN  /\ ~aborted
      /\ last_op' = <<"CreateGrandProductPolys", p>>
      /\ IF size # Len(prover.permuted_pairs_)
         THEN /\ aborted' = TRUE
              /\ UNCHANGED <<lookup_provers, blinder>>
         ELSE /\ aborted' = FALSE
              /\ lookup_provers' =
                   [lookup_provers EXCEPT
                      ![p].grand_product_polys_ =
                         [i \in 1 .. size |->
                            CreateGrandProductPoly(prover.compressed_pairs_[i],
                                                   prover.permuted_pairs_[i],
                                                   beta, gamma, blinder + i - 1)],
                      ![p].compressed_pairs_ = <<>>]
              /\ blinder' = blinder + size
      /\ UNCHANGED <<batch_mode, proof, batch_commits, commit_idx, openings>>

BatchCommitGrandProductPolys ==
  /\ ~aborted
  /\ BatchCommit(GrandProductEvalsInOrder(lookup_provers, Len(lookup_provers)))
  /\ last_op' = <<"BatchCommitGrandProductPolys", 0>>
  /\ UNCHANGED <<batch_mode, lookup_provers, blinder, openings>>

TransformEvalsToPoly(p) ==
  /\ ~aborted
  /\ lookup_provers' =
       [lookup_provers EXCEPT
          ![p].permuted_pairs_ =
             [i \in 1 .. Len(@) |-> LookupPair(TransformBlinded(@[i].input),
                                               TransformBlinded(@[i].table))],
          ![p].grand_product_polys_ =
             [i \in 1 .. Len(@) |-> TransformBlinded(@[i])]]
  /\ last_op' = <<"TransformEvalsToPoly", p>>
  /\ UNCHANGED <<batch_mode, blinder, proof, batch_commits, commit_idx, openings>>

\* OpeningPointSet of the challenge x: x, x * omega^-1, x * omega
OpeningPointSet(x) ==
  [x |-> x, x_prev |-> FDiv(x, Omega), x_next |-> FMul(x, Omega)]

\* the polynomial and the point of one EVALUATE / OPENING line: the member
\* that holds the polynomial and the member of the point set
Query(member, i, point) == [member |-> member, row |-> i, point |-> point]

\* the five lines of the loop body of Evaluate for row i
EvaluateRow(i) ==
  << Query("grand_product_poly", i, "x"),
     Query("grand_product_poly", i, "x_next"),
     Query("permuted_pair.input", i, "x"),
     Query("permuted_pair.input", i, "x_prev"),
     Query("permuted_pair.table", i, "x") >>

\* the five lines of the loop body of Open for row i, x_next and x_prev
\* exchanged
OpenRowExchanged(i) ==
  << Query("grand_product_poly", i, "x"),
     Query("grand_product_poly", i, "x_prev"),
     Query("permuted_pair.input", i, "x"),
     Query("permuted_pair.input", i, "x_next"),
     Query("permuted_pair.table", i, "x") >>

\* the five lines of the loop body of Open for row i
OpenRow(i) ==
  << Query("grand_product_poly", i, "x"),
     Query("grand_product_poly", i, "x_next"),
     Query("permuted_pair.input", i, "x"),
     Query("permuted_pair.input", i, "x_prev"),
     Query("permuted_pair.table", i, "x") >>

\* polynomial.poly() of the member a query names
QueriedPoly(prover, q) ==
  IF q.member = "grand_product_poly" THEN prover.grand_product_polys_[q.row].poly
  ELSE IF q.member = "permuted_pair.input" THEN prover.permuted_pairs_[q.row].input.poly
  ELSE prover.permuted_pairs_[q.row].table.poly

RECURSIVE EvaluateLoop(_)
EvaluateLoop(size) ==
  IF size = 0 THEN <<>> ELSE EvaluateLoop(size - 1) \o EvaluateRow(size)

RECURSIVE OpenLoop(_)
OpenLoop(size) ==
  IF size = 0 THEN <<>> ELSE OpenLoop(size - 1) \o OpenRow(size)

Evaluate(p, point_set) ==
  LET prover == lookup_provers[p]
      size == Len(prover.grand_product_polys_)
      queries == EvaluateLoop(size)
  IN  /\ ~aborted
      /\ last_op' = <<"Evaluate", p>>
      /\ IF size # Len(prover.permuted_pairs_)
         THEN /\ aborted' = TRUE
              /\ UNCHANGED proof
         ELSE /\ aborted' = FALSE
              /\ proof' = proof \o
                   [k \in 1 .. Len(queries) |->
                      [kind |-> "eval", prover |-> p, query |-> queries[k],
                       value |-> PolyEvaluate(QueriedPoly(prover, queries[k]),
                                              point_set[queries[k].point])]]
      /\ UNCHANGED <<batch_mode, lookup_provers, blinder, batch_commits,
                     commit_idx, openings>>

Open(p, point_set) ==
  LET prover == lookup_provers[p]
      size == Len(prover.grand_product_polys_)
      queries == OpenLoop(size)
  IN  /\ ~aborted
      /\ last_op' = <<"Open", p>>
      /\ IF size # Len(prover.permuted_pairs_)
         THEN /\ aborted' = TRUE
              /\ UNCHANGED openings
         ELSE /\ aborted' = FALSE
              /\ openings' = openings \o
                   [k \in 1 .. Len(queries) |->
                      [poly_oracle |-> [prover |-> p, member |-> queries[k].member,
                                        row |-> queries[k].row],
                       point |-> queries[k].point,
                       opening |-> PolyEvaluate(QueriedPoly(prover, queries[k]),
                                                point_set[queries[k].point])]]
      /\ UNCHANGED <<batch_mode, lookup_provers, blinder, proof, batch_commits,
                     commit_idx>>

ProverInit ==
  /\ batch_mode \in BOOLEAN
  /\ lookup_provers \in {[p \in 1 .. n |-> NewProver] : n \in 0 .. MaxProvers}
  /\ blinder = 0
  /\ proof = <<>>
  /\ batch_commits = <<>>
  /\ commit_idx \in 0 .. MaxCommitStart
  /\ openings = <<>>
  /\ last_op = <<"", 0>>
  /\ seed \in 1 .. NumChallenges
  /\ pc = [stage |-> 1, p |-> 1]

(***************************************************************************)
(* The proof driver: it takes the lookup provers through the pipeline, the *)
(* per-prover operations in the order of the vector, the batch operations  *)
(* once for all provers.  The challenges of a round are those the          *)
(* transcript yields.                                                      *)
(***************************************************************************)
Stages == << "compress", "permute", "commit_permuted", "grand_product",
             "commit_grand_product", "transform", "evaluate", "open", "done" >>

PerProverStages == {"permute", "grand_product", "transform", "evaluate", "open"}

RECURSIVE SkipEmptyLoops(_)
SkipEmptyLoops(stage) ==
  IF Len(lookup_provers) = 0 /\ Stages[stage] \in PerProverStages
  THEN SkipEmptyLoops(stage + 1)
  ELSE [stage |-> stage, p |-> 1]

\* the driver's position after the operation at |pc|
Advance ==
  IF Stages[pc.stage] \in PerProverStages /\ pc.p < Len(lookup_provers)
  THEN [stage |-> pc.stage, p |-> pc.p + 1]
  ELSE SkipEmptyLoops(pc.stage + 1)

At(stage) == Stages[pc.stage] = stage

Theta == Challenge(seed, 1)

Beta == Challenge(seed, 2)

Gamma == Challenge(seed, 3)

PointX == Challenge(seed, 4)

grouperState == <<poly_openings, grouped_poly_openings_vec_, super_point_set_, calls>>

DoBatchCompressPairs ==
  /\ At("compress")
  /\ \E arguments \in ArgumentLists : BatchCompressPairs(arguments, Theta)
  /\ pc' = Advance
  /\ UNCHANGED <<aborted, seed, grouperState, quotientVars, otherVars>>

DoPermutePairs ==
  /\ At("permute")
  /\ PermutePairs(pc.p)
  /\ pc' = Advance
  /\ UNCHANGED <<seed, grouperState, quotientVars, otherVars>>

DoBatchCommitPermutedPairs ==
  /\ At("commit_permuted")
  /\ BatchCommitPermutedPairs
  /\ pc' = Advance
  /\ UNCHANGED <<aborted, seed, grouperState, quotientVars, otherVars>>

DoCreateGrandProductPolys ==
  /\ At("grand_product")
  /\ CreateGrandProductPolys(pc.p, Beta, Gamma)
  /\ pc' = Advance
  /\ UNCHANGED <<seed, grouperState, quotientVars, otherVars>>

DoBatchCommitGrandProductPolys ==
  /\ At("commit_grand_product")
  /\ BatchCommitGrandProductPolys
  /\ pc' = Advance
  /\ UNCHANGED <<aborted, seed, grouperState, quotientVars, otherVars>>

DoTransformEvalsToPoly ==
  /\ At("transform")
  /\ TransformEvalsToPoly(pc.p)
  /\ pc' = Advance
  /\ UNCHANGED <<aborted, seed, grouperState, quotientVars, otherVars>>

DoEvaluate ==
  /\ At("evaluate")
  /\ Evaluate(pc.p, OpeningPointSet(PointX))
  /\ pc' = Advance
  /\ UNCHANGED <<seed, grouperState, quotientVars, otherVars>>

DoOpen ==
  /\ At("open")
  /\ Open(pc.p, OpeningPointSet(PointX))
  /\ pc' = Advance
  /\ UNCHANGED <<seed, grouperState, quotientVars, otherVars>>

(***************************************************************************)
(* A caller that does not keep to the order of the pipeline: it takes one  *)
(* lookup prover through the pipeline and, at any point, invokes other     *)
(* operations of the prover instead.                                       *)
(***************************************************************************)
\* largest number of invocations that leave the order of the pipeline
MaxDeviations == 2

Pipeline == << "CompressPairs", "PermutePairs", "CreateGrandProductPolys",
               "TransformEvalsToPoly", "Evaluate", "Open" >>

\* the names of the operations of a history
OpsOf(h) == [i \in 1 .. Len(h) |-> h[i][1]]

\* length of the longest prefix of |ops| that follows the pipeline
InOrderLen(ops) ==
  LET agrees == {k \in 0 .. Len(ops) :
                   /\ k <= Len(Pipeline)
                   /\ \A i \in 1 .. k : ops[i] = Pipeline[i]}
  IN  CHOOSE k \in agrees : \A j \in agrees : j <= k

Deviations(ops) == Len(ops) - InOrderLen(ops)

MayInvoke(op) ==
  /\ ~aborted
  /\ Deviations(Append(OpsOf(history), op)) <= MaxDeviations

\* an operation that returns is added to the history
Returned(op, n) ==
  history' = IF aborted' THEN history ELSE Append(history, <<op, n>>)

\* the circuits the caller compresses: the last arguments of Arguments
FreeArgumentLists ==
  {SubSeq(Arguments, Len(Arguments) - n + 1, Len(Arguments)) :
     n \in 1 .. MaxArguments}

freeFrame == <<seed, pc, grouperState, quotientVars, r1csVars, chunkVars>>

FreeCompressPairs ==
  /\ MayInvoke("CompressPairs")
  /\ \E arguments \in FreeArgumentLists :
       /\ BatchCompressPairs(arguments, Theta)
       /\ history' = Append(history, <<"CompressPairs", Len(arguments)>>)
  /\ UNCHANGED <<aborted, freeFrame>>

FreePermutePairs ==
  /\ MayInvoke("PermutePairs")
  /\ PermutePairs(1)
  /\ Returned("PermutePairs", 0)
  /\ UNCHANGED freeFrame

\* a permuted pair whose evaluations TransformEvalsToPoly has moved out
EvalsMovedOut(prover) ==
  \E i \in 1 .. Len(prover.permuted_pairs_) :
    \/ Len(prover.permuted_pairs_[i].input.evals) # DomainSize
    \/ Len(prover.permuted_pairs_[i].table.evals) # DomainSize

\* CreateGrandProductPolys; its denominator callback indexes the evaluations
\* of the permuted pairs, and when they were moved out the read is out of
\* bounds: the call may crash or return polynomials of any content
FreeCreateGrandProductPolys ==
  /\ MayInvoke("CreateGrandProductPolys")
  /\ IF /\ Len(lookup_provers[1].compressed_pairs_)
             = Len(lookup_provers[1].permuted_pairs_)
        /\ EvalsMovedOut(lookup_provers[1])
     THEN /\ last_op' = <<"CreateGrandProductPolys", 1>>
          /\ \/ /\ aborted' = TRUE
                /\ UNCHANGED <<lookup_provers, blinder>>
             \/ /\ aborted' = FALSE
                /\ \E garbage \in {[i \in Rows |-> 0], [i \in Rows |-> 1]} :
                     lookup_provers' =
                       [lookup_provers EXCEPT
                          ![1].grand_product_polys_ =
                             [i \in 1 .. Len(lookup_provers[1].compressed_pairs_) |->
                                BlindedPolynomial(garbage, BlinderGenerate(blinder + i - 1))],
                          ![1].compressed_pairs_ = <<>>]
                /\ blinder' = blinder + Len(lookup_provers[1].compressed_pairs_)
          /\ UNCHANGED <<batch_mode, proof, batch_commits, commit_idx, openings>>
     ELSE CreateGrandProductPolys(1, Beta, Gamma)
  /\ Returned("CreateGrandProductPolys", 0)
  /\ UNCHANGED freeFrame

FreeTransformEvalsToPoly ==
  /\ MayInvoke("TransformEvalsToPoly")
  /\ TransformEvalsToPoly(1)
  /\ history' = Append(history, <<"TransformEvalsToPoly", 0>>)
  /\ UNCHANGED <<aborted, freeFrame>>

FreeEvaluate ==
  /\ MayInvoke("Evaluate")
  /\ Evaluate(1, OpeningPointSet(PointX))
  /\ Returned("Evaluate", 0)
  /\ UNCHANGED freeFrame

FreeOpen ==
  /\ MayInvoke("Open")
  /\ Open(1, OpeningPointSet(PointX))
  /\ Returned("Open", 0)
  /\ UNCHANGED freeFrame

FreeOrderInit ==
  /\ batch_mode = FALSE
  /\ lookup_provers = <<NewProver>>
  /\ blinder = 0
  /\ proof = <<>>
  /\ batch_commits = <<>>
  /\ commit_idx = 0
  /\ openings = <<>>
  /\ last_op = <<"", 0>>
  /\ seed \in 1 .. NumChallenges
  /\ pc = [stage |-> 1, p |-> 1]
  /\ history = <<>>

(***************************************************************************)
(* circom::v1::R1CS.  A buffer is a sequence of words; a read of n words   *)
(* at an offset fails when fewer than n words are left.                    *)
(***************************************************************************)
\* largest num_wires of a generated file
MaxWires == 2
\* largest num_constraints of a generated file
MaxConstraints == 1
\* largest number of terms of a linear combination of a generated file
MaxTerms == 1

kHeader == 1

kConstraints == 2

kWire2LabelIdMap == 3

\* base::ReadOnlyBuffer::Read of |n| words at |off|: <<ok, the words>>, the
\* words being those that are left when the read fails
ReadWords(buf, off, n) ==
  IF off + n <= Len(buf)
  THEN <<TRUE, SubSeq(buf, off + 1, off + n)>>
  ELSE <<FALSE, SubSeq(buf, off + 1, Len(buf))>>

\* std::vector::resize: truncated, or padded with zeros
Resize(v, n) == [i \in 1 .. n |-> IF i <= Len(v) THEN v[i] ELSE 0]

\* |old| with its first entries overwritten by |new|
Overwrite(old, new) ==
  [i \in 1 .. Len(old) |-> IF i <= Len(new) THEN new[i] ELSE old[i]]

\* Sections::Read: the number of sections, then for each its type, its size
\* and its content, which is skipped
RECURSIVE ScanSections(_, _, _)
ScanSections(buf, off, n) ==
  IF n = 0 THEN [ok |-> TRUE, table |-> <<>>]
  ELSE LET head == ReadWords(buf, off, 2)
       IN  IF ~head[1] THEN [ok |-> FALSE, table |-> <<>>]
           ELSE LET rest == ScanSections(buf, off + 2 + head[2][2], n - 1)
                IN  [ok |-> rest.ok,
                     table |-> <<[type |-> head[2][1], offset |-> off + 2]>>
                                 \o rest.table]

SectionsRead(buf) ==
  LET count == ReadWords(buf, 0, 1)
  IN  IF ~count[1] THEN [ok |-> FALSE, table |-> <<>>]
      ELSE ScanSections(buf, 1, count[2][1])

\* Sections::MoveTo: <<found, offset of the first section of the type>>
MoveTo(table, type) ==
  LET hits == {i \in 1 .. Len(table) : table[i].type = type}
  IN  IF hits = {} THEN <<FALSE, 0>>
      ELSE <<TRUE, table[CHOOSE i \in hits : \A j \in hits : i <= j].offset>>

\* the six counters of the header, in declaration order
NumWires(h) == h.nums[1]

NumConstraints(h) == h.nums[6]

\* R1CSHeaderSection::Read: the modulus (its size, then its bytes), then the
\* counters one after the other; what was read before a failure stays
HeaderRead(buf, off, old) ==
  LET size == ReadWords(buf, off, 1)
  IN  IF ~size[1] THEN [ok |-> FALSE, header |-> old]
      ELSE LET bytes == ReadWords(buf, off + 1, size[2][1])
           IN  IF ~bytes[1]
               THEN [ok |-> FALSE,
                     header |-> [old EXCEPT !.modulus = Resize(@, size[2][1])]]
               ELSE LET nums == ReadWords(buf, off + 1 + size[2][1], Len(old.nums))
                    IN  [ok |-> nums[1],
                         header |-> [modulus |-> bytes[2],
                                     nums |-> Overwrite(old.nums, nums[2])]]

\* the loop over k: the terms of one linear combination
RECURSIVE ReadTerms(_, _, _, _)
ReadTerms(buf, off, n, field_size) ==
  IF n = 0 THEN [ok |-> TRUE, off |-> off, terms |-> <<>>]
  ELSE LET wire_id == ReadWords(buf, off, 1)
           coefficient == ReadWords(buf, off + 1, field_size)
       IN  IF ~wire_id[1] \/ ~coefficient[1]
           THEN [ok |-> FALSE, off |-> off, terms |-> <<>>]
           ELSE LET rest == ReadTerms(buf, off + 1 + field_size, n - 1, field_size)
                IN  [ok |-> rest.ok, off |-> rest.off,
                     terms |-> <<[wire_id |-> wire_id[2][1],
                                  coefficient |-> coefficient[2]]>> \o rest.terms]

\* the loop over j: the linear combinations a, b, c of one constraint
RECURSIVE ReadLinearCombinations(_, _, _, _)
ReadLinearCombinations(buf, off, left, field_size) ==
  IF left = 0 THEN [ok |-> TRUE, off |-> off, lcs |-> <<>>]
  ELSE LET n == ReadWords(buf, off, 1)
       IN  IF ~n[1] THEN [ok |-> FALSE, off |-> off, lcs |-> <<>>]
           ELSE LET terms == ReadTerms(buf, off + 1, n[2][1], field_size)
                IN  IF ~terms.ok THEN [ok |-> FALSE, off |-> off, lcs |-> <<>>]
                    ELSE LET rest == ReadLinearCombinations(buf, terms.off, left - 1,
                                                            field_size)
                         IN  [ok |-> rest.ok, off |-> rest.off,
                              lcs |-> <<terms.terms>> \o rest.lcs]

\* the loop over i: a constraint is pushed back once it is read whole
RECURSIVE ReadConstraints(_, _, _, _, _)
ReadConstraints(buf, off, left, field_size, acc) ==
  IF left = 0 THEN [ok |-> TRUE, constraints |-> acc]
  ELSE LET lcs == ReadLinearCombinations(buf, off, 3, field_size)
       IN  IF ~lcs.ok THEN [ok |-> FALSE, constraints |-> acc]
           ELSE ReadConstraints(buf, lcs.off, left - 1, field_size,
                                Append(acc, [a |-> lcs.lcs[1], b |-> lcs.lcs[2],
                                             c |-> lcs.lcs[3]]))

\* R1CSConstraintsSection::Read
ConstraintsRead(buf, off, h, old) ==
  ReadConstraints(buf, off, NumConstraints(h), Len(h.modulus), old)

\* R1CSWireId2LabelIdMapSection::Read
WireId2LabelIdMapRead(buf, off, h, old) ==
  LET ids == ReadWords(buf, off, NumWires(h))
  IN  [ok |-> ids[1], label_ids |-> Overwrite(Resize(old, NumWires(h)), ids[2])]

R1CSState(h, c, m) == [header |-> h, constraints |-> c, wire_id_to_label_id_map |-> m]

\* v1::R1CS::Read on the object |old|: what it returns and what it leaves in
\* the three members, each of which is read in place
R1CSRead(old, buf) ==
  LET sections == SectionsRead(buf)
      to_header == MoveTo(sections.table, kHeader)
      h == HeaderRead(buf, to_header[2], old.header)
      to_constraints == MoveTo(sections.table, kConstraints)
      c == ConstraintsRead(buf, to_constraints[2], h.header, old.constraints)
      to_map == MoveTo(sections.table, kWire2LabelIdMap)
      m == WireId2LabelIdMapRead(buf, to_map[2], h.header,
                                 old.wire_id_to_label_id_map)
  IN  IF ~sections.ok \/ ~to_header[1]
      THEN [ret |-> FALSE, r1cs |-> old]
      ELSE IF ~h.ok \/ ~to_constraints[1]
      THEN [ret |-> FALSE, r1cs |-> [old EXCEPT !.header = h.header]]
      ELSE IF ~c.ok \/ ~to_map[1]
      THEN [ret |-> FALSE,
            r1cs |-> R1CSState(h.header, c.constraints, old.wire_id_to_label_id_map)]
      ELSE [ret |-> m.ok, r1cs |-> R1CSState(h.header, c.constraints, m.label_ids)]

\* the files a writer produces: |wires| wires, |cons| constraints whose linear
\* combinations have |terms| terms each, a modulus of one byte
FileShapes ==
  {[wires |-> w, cons |-> c, terms |-> t] :
     w \in 1 .. MaxWires, c \in 0 .. MaxConstraints, t \in 0 .. MaxTerms}

HeaderContent(shape) ==
  <<1, Modulus, shape.wires, 0, 0, 0, shape.wires, shape.cons>>

RECURSIVE TermsContent(_)
TermsContent(n) == IF n = 0 THEN <<>> ELSE TermsContent(n - 1) \o <<n - 1, 1>>

RECURSIVE ConstraintsContent(_, _)
ConstraintsContent(cons, terms) ==
  IF cons = 0 THEN <<>>
  ELSE ConstraintsContent(cons - 1, terms)
         \o <<terms>> \o TermsContent(terms)
         \o <<terms>> \o TermsContent(terms)
         \o <<terms>> \o TermsContent(terms)

MapContent(shape) == [i \in 1 .. shape.wires |-> i]

SectionContent(type, shape) ==
  IF type = kHeader THEN HeaderContent(shape)
  ELSE IF type = kConstraints THEN ConstraintsContent(shape.cons, shape.terms)
  ELSE MapContent(shape)

RECURSIVE SectionsOf(_, _)
SectionsOf(types, shape) ==
  IF types = <<>> THEN <<>>
  ELSE <<Head(types), Len(SectionContent(Head(types), shape))>>
         \o SectionContent(Head(types), shape)
         \o SectionsOf(Tail(types), shape)

\* the sections may come in any order and a section may be missing
SectionOrders ==
  {<<kHeader, kConstraints, kWire2LabelIdMap>>,
   <<kWire2LabelIdMap, kConstraints, kHeader>>,
   <<kConstraints, kWire2LabelIdMap>>,
   <<kHeader, kWire2LabelIdMap>>,
   <<kHeader, kConstraints>>}

File(types, shape) == <<Len(types)>> \o SectionsOf(types, shape)

\* the files, whole or cut off after any number of words
Buffers ==
  UNION {{SubSeq(File(types, shape), 1, n) : n \in 0 .. Len(File(types, shape))} :
           types \in SectionOrders, shape \in FileShapes}

FreshR1CS == R1CSState([modulus |-> <<>>, nums |-> <<0, 0, 0, 0, 0, 0>>], <<>>, <<>>)

\* an object that has read the largest file before
LoadedR1CS ==
  R1CSRead(FreshR1CS,
           File(<<kHeader, kConstraints, kWire2LabelIdMap>>,
                [wires |-> MaxWires, cons |-> MaxConstraints, terms |-> MaxTerms])).r1cs

ThisR1CS == R1CSState(header, constraints, wire_id_to_label_id_map)

R1CSInit ==
  /\ \E object \in {FreshR1CS, LoadedR1CS} :
       /\ header = object.header
       /\ constraints = object.constraints
       /\ wire_id_to_label_id_map = object.wire_id_to_label_id_map
  /\ buffer = <<>>
  /\ read_result = "none"

\* no R1CS file is read
NoR1CS ==
  /\ header = FreshR1CS.header
  /\ constraints = FreshR1CS.constraints
  /\ wire_id_to_label_id_map = FreshR1CS.wire_id_to_label_id_map
  /\ buffer = <<>>
  /\ read_result = "none"

\* Read is called once with some buffer
Read ==
  /\ read_result = "none"
  /\ \E buf \in Buffers :
       LET res == R1CSRead(ThisR1CS, buf)
       IN  /\ buffer' = buf
           /\ read_result' = IF res.ret THEN "true" ELSE "false"
           /\ header' = res.r1cs.header
           /\ constraints' = res.r1cs.constraints
           /\ wire_id_to_label_id_map' = res.r1cs.wire_id_to_label_id_map
  /\ UNCHANGED <<grouperVars, quotientVars, proverVars, history, chunkVars>>

(***************************************************************************)
(* One Parallelize invocation of GrandProductArgument::CreatePoly followed *)
(* entry by entry: the workers run the callback on the chunks of the       *)
(* vector, each worker at its own pace.  The denominators are computed,    *)
(* inverted, and multiplied by the numerators.                             *)
(***************************************************************************)
\* the number of entries of chunk |chunk_index|
ChunkLen(chunk_index, chunk_size) == Cardinality(ChunkRows(chunk_index, chunk_size))

\* the row of the vector the entry at |offset| of the span of a chunk is
SpanRow(chunk_index, chunk_size, offset) ==
  CHOOSE row \in ChunkRows(chunk_index, chunk_size) :
    Cardinality({r \in ChunkRows(chunk_index, chunk_size) : r < row}) = offset

\* the index i of a callback with the offset taken from the span
CallbackIndexFromSpan(chunk_index, chunk_size, offset) == offset

\* the index i of a callback after |offset| increments
CallbackIndex(chunk_index, chunk_size, offset) ==
  chunk_index * chunk_size + offset

\* the body of the loop of the numerator callback at index |i|
NumeratorEntry(compressed_pair, beta, gamma, value, i) ==
  FMul(FMul(value, FAdd(compressed_pair.input[i + 1], beta)),
       FAdd(compressed_pair.table[i + 1], gamma))

\* the body of the loop of the denominator callback at index |i|
DenominatorEntry(permuted_pair, beta, gamma, i) ==
  FMul(FAdd(permuted_pair.input.evals[i + 1], beta),
       FAdd(permuted_pair.table.evals[i + 1], gamma))

\* what the callbacks of one grand product capture
Captured(argument, p, t) ==
  LET compressed_pair == CompressPair(argument, Challenge(t, 1), TableOf(p))
  IN  [compressed_pair |-> compressed_pair,
       permuted |-> PermutePair(compressed_pair, 0),
       beta |-> Challenge(t, 2),
       gamma |-> Challenge(t, 3)]

\* the captures of the grand products CreateGrandProductPoly starts
Captures ==
  {[compressed_pair |-> c.compressed_pair, permuted_pair |-> c.permuted[2],
    beta |-> c.beta, gamma |-> c.gamma] :
     c \in {d \in {Captured(Arguments[a], p, t) :
                     a \in 1 .. Len(Arguments), p \in 1 .. MaxProvers,
                     t \in 1 .. NumChallenges} : d.permuted[1]}}

NoOffsets(chunk_size) == [c \in 1 .. NumChunks(chunk_size) |-> 0]

\* CreatePoly starts: a vector of zeros, split into chunks of any size
ChunksInit ==
  /\ par_phase = "denominator"
  /\ par_chunk_size \in 1 .. DomainSize
  /\ par_values = [i \in Rows |-> 0]
  /\ par_offsets = NoOffsets(par_chunk_size)
  /\ par_captured \in Captures

chunkFrame == <<grouperVars, quotientVars, proverVars, history, r1csVars>>

\* a worker's chunk has entries left
Running(chunk_index) ==
  par_offsets[chunk_index + 1] < ChunkLen(chunk_index, par_chunk_size)

\* one iteration of the loop of the denominator callback on some chunk
DenominatorStep ==
  /\ par_phase = "denominator"
  /\ \E chunk_index \in 0 .. NumChunks(par_chunk_size) - 1 :
       LET offset == par_offsets[chunk_index + 1]
           i == CallbackIndex(chunk_index, par_chunk_size, offset)
       IN  /\ Running(chunk_index)
           /\ par_values' =
                [par_values EXCEPT
                   ![SpanRow(chunk_index, par_chunk_size, offset)] =
                      DenominatorEntry(par_captured.permuted_pair,
                                       par_captured.beta, par_captured.gamma, i)]
           /\ par_offsets' = [par_offsets EXCEPT ![chunk_index + 1] = offset + 1]
  /\ UNCHANGED <<par_phase, par_chunk_size, par_captured, chunkFrame>>

\* every worker has returned: the denominators are inverted and the
\* numerator callback is handed to Parallelize
Barrier ==
  /\ par_phase = "denominator"
  /\ \A chunk_index \in 0 .. NumChunks(par_chunk_size) - 1 : ~Running(chunk_index)
  /\ par_phase' = "numerator"
  /\ par_values' = [i \in Rows |-> FInvOrZero(par_values[i])]
  /\ par_offsets' = NoOffsets(par_chunk_size)
  /\ UNCHANGED <<par_chunk_size, par_captured, chunkFrame>>

\* one iteration of the loop of the numerator callback on some chunk
NumeratorStep ==
  /\ par_phase = "numerator"
  /\ \E chunk_index \in 0 .. NumChunks(par_chunk_size) - 1 :
       LET offset == par_offsets[chunk_index + 1]
           i == CallbackIndex(chunk_index, par_chunk_size, offset)
           row == SpanRow(chunk_index, par_chunk_size, offset)
       IN  /\ Running(chunk_index)
           /\ par_values' =
                [par_values EXCEPT
                   ![row] = NumeratorEntry(par_captured.compressed_pair,
                                           par_captured.beta, par_captured.gamma,
                                           par_values[row], i)]
           /\ par_offsets' = [par_offsets EXCEPT ![chunk_index + 1] = offset + 1]
  /\ UNCHANGED <<par_phase, par_chunk_size, par_captured, chunkFrame>>

\* every worker has returned: Parallelize returns
Join ==
  /\ par_phase = "numerator"
  /\ \A chunk_index \in 0 .. NumChunks(par_chunk_size) - 1 : ~Running(chunk_index)
  /\ par_phase' = "done"
  /\ UNCHANGED <<par_chunk_size, par_values, par_offsets, par_captured, chunkFrame>>

\* no Parallelize invocation is followed
NoChunks ==
  /\ par_phase = "idle"
  /\ par_chunk_size = 0
  /\ par_values = <<>>
  /\ par_offsets = <<>>
  /\ par_captured = <<>>

\* no operation is invoked out of the driver's order
NoHistory == history = <<>>

vars == <<grouperVars, quotientVars, proverVars, otherVars>>

\* the grouper and the quotient builder are studied with no lookup prover
NoProver ==
  /\ batch_mode = FALSE
  /\ lookup_provers = <<>>
  /\ blinder = 0
  /\ proof = <<>>
  /\ batch_commits = <<>>
  /\ commit_idx = 0
  /\ openings = <<>>
  /\ last_op = <<"", 0>>
  /\ seed = 1
  /\ pc = [stage |-> 1, p |-> 1]

Init == GrouperInit /\ QuotientInit /\ NoProver /\ NoHistory /\ NoR1CS /\ NoChunks

Next == GroupFresh

Spec == Init /\ [][Next]_vars

NextQuotient == GroupForQuotient \/ BuildQuotient

SpecQuotient == Init /\ [][NextQuotient]_vars

InitProver ==
  GrouperInit /\ QuotientInit /\ ProverInit /\ NoHistory /\ NoR1CS /\ NoChunks

NextProver ==
  \/ DoBatchCompressPairs
  \/ DoPermutePairs
  \/ DoBatchCommitPermutedPairs
  \/ DoCreateGrandProductPolys
  \/ DoBatchCommitGrandProductPolys
  \/ DoTransformEvalsToPoly
  \/ DoEvaluate
  \/ DoOpen

SpecProver == InitProver /\ [][NextProver]_vars

\* a proof without lookup provers goes on to the quotient of a hand-built
\* group
DoHandBuiltQuotient ==
  /\ At("done")
  /\ Len(lookup_provers) = 0
  /\ BuildHandBuiltQuotient
  /\ UNCHANGED <<proverVars, otherVars>>

NextAbort ==
  \/ DoBatchCompressPairs
  \/ DoPermutePairs
  \/ DoBatchCommitPermutedPairs
  \/ DoCreateGrandProductPolys
  \/ DoBatchCommitGrandProductPolys
  \/ DoTransformEvalsToPoly
  \/ DoEvaluate
  \/ DoOpen
  \/ DoHandBuiltQuotient

SpecAbort == InitProver /\ [][NextAbort]_vars

InitFreeOrder ==
  GrouperInit /\ QuotientInit /\ FreeOrderInit /\ NoR1CS /\ NoChunks

NextFreeOrder ==
  \/ FreeCompressPairs
  \/ FreePermutePairs
  \/ FreeCreateGrandProductPolys
  \/ FreeTransformEvalsToPoly
  \/ FreeEvaluate
  \/ FreeOpen

SpecFreeOrder == InitFreeOrder /\ [][NextFreeOrder]_vars

InitR1CS ==
  GrouperInit /\ QuotientInit /\ NoProver /\ NoHistory /\ R1CSInit /\ NoChunks

NextR1CS == Read

SpecR1CS == InitR1CS /\ [][NextR1CS]_vars

InitChunks ==
  GrouperInit /\ QuotientInit /\ NoProver /\ NoHistory /\ NoR1CS /\ ChunksInit

NextChunks ==
  \/ DenominatorStep
  \/ Barrier
  \/ NumeratorStep
  \/ Join

SpecChunks == InitChunks /\ [][NextChunks]_vars

NextRounds == GroupAgain

SpecRounds == Init /\ [][NextRounds]_vars

(***************************************************************************)
(* Properties of the grouper.                                              *)
(***************************************************************************)
\* the grouper was fresh and has grouped exactly one claim list
GroupedOnce == calls = 1 /\ ~aborted

InputIdx == 1 .. Len(poly_openings)

GroupIdx == 1 .. Len(grouped_poly_openings_vec_)

\* the oracles (as values) that occur in the input
InputOracleVals == {PolyMem(poly_openings[i].poly_oracle) : i \in InputIdx}

\* the field values at which the input opens the oracle |ov|
InputPointVals(ov) ==
  {PointMem(poly_openings[i].point) :
     i \in {j \in InputIdx : PolyMem(poly_openings[j].poly_oracle) = ov}}

AllInputPointVals == {PointMem(poly_openings[i].point) : i \in InputIdx}

GroupOracleSeq(g) ==
  [k \in 1 .. Len(grouped_poly_openings_vec_[g].poly_openings_vec) |->
     PolyMem(grouped_poly_openings_vec_[g].poly_openings_vec[k].poly_oracle)]

GroupPointSeq(g) ==
  [j \in 1 .. Len(grouped_poly_openings_vec_[g].point_refs) |->
     PointMem(grouped_poly_openings_vec_[g].point_refs[j])]

StrictlyAscending(s) == \A i \in 1 .. (Len(s) - 1) : s[i] < s[i + 1]

IndexOf(s, v) ==
  IF \E i \in 1 .. Len(s) : s[i] = v THEN CHOOSE i \in 1 .. Len(s) : s[i] = v ELSE 0

\* C2: grouping soundness: for every group G and every input claim c whose
\* oracle is one of G's oracles, c.point is in G.points and c's claimed value
\* is stored for that oracle at the index of c.point.
C2_GroupingSoundness ==
  GroupedOnce =>
    \A g \in GroupIdx : \A i \in InputIdx :
      \A k \in 1 .. Len(GroupOracleSeq(g)) :
        GroupOracleSeq(g)[k] = PolyMem(poly_openings[i].poly_oracle) =>
          LET j == IndexOf(GroupPointSeq(g), PointMem(poly_openings[i].point))
          IN  /\ j # 0
              /\ grouped_poly_openings_vec_[g].poly_openings_vec[k].openings[j]
                   = poly_openings[i].opening

\* the input holds two claims on one (oracle, point) with different values
InconsistentInput ==
  \E i, j \in InputIdx :
    /\ PolyMem(poly_openings[i].poly_oracle) = PolyMem(poly_openings[j].poly_oracle)
    /\ PointMem(poly_openings[i].point) = PointMem(poly_openings[j].point)
    /\ poly_openings[i].opening # poly_openings[j].opening

\* C3: when the input holds two claims on the same (oracle, point) with
\* different values, grouping fails fatally and produces no groups.
C3_InconsistentClaimRejected ==
  (calls = 1 /\ InconsistentInput) =>
    (aborted /\ grouped_poly_openings_vec_ = <<>>)

\* C4: grouping completeness: after one GroupByPolyAndPoints on a fresh
\* grouper, the oracle of every input claim occurs in exactly one group and
\* exactly once among that group's oracles.
C4_GroupingCompleteness ==
  GroupedOnce =>
    \A i \in InputIdx :
      Cardinality({gk \in {<<g, k>> : g \in GroupIdx, k \in 1 .. MaxClaims} :
                     /\ gk[2] <= Len(GroupOracleSeq(gk[1]))
                     /\ GroupOracleSeq(gk[1])[gk[2]]
                          = PolyMem(poly_openings[i].poly_oracle)}) = 1

\* C4 witness: an oracle claimed twice, through two locations and at two
\* points, that ends up once in the only group.
C4_Witness ==
  /\ GroupedOnce
  /\ Len(grouped_poly_openings_vec_) = 1
  /\ \E i, j \in InputIdx :
       /\ poly_openings[i].poly_oracle # poly_openings[j].poly_oracle
       /\ PolyMem(poly_openings[i].poly_oracle) = PolyMem(poly_openings[j].poly_oracle)
       /\ PointMem(poly_openings[i].point) # PointMem(poly_openings[j].point)

SuperPointSeq == [j \in 1 .. Len(super_point_set_) |-> PointMem(super_point_set_[j])]

\* C5: after GroupByPolyAndPoints, super_point_set() holds, in ascending order
\* and once each, exactly the points of all groups, which are exactly the
\* points of the input claims.
C5_SuperPointSet ==
  GroupedOnce =>
    /\ StrictlyAscending(SuperPointSeq)
    /\ SeqRange(SuperPointSeq) = UNION {SeqRange(GroupPointSeq(g)) : g \in GroupIdx}
    /\ SeqRange(SuperPointSeq) = AllInputPointVals

\* C5 witness: two oracles claimed at different points, given in descending
\* order of value, so that the set spans two groups.
C5_Witness ==
  /\ GroupedOnce
  /\ Len(super_point_set_) = 2
  /\ Len(grouped_poly_openings_vec_) = 2
  /\ PointMem(poly_openings[1].point) > PointMem(poly_openings[2].point)

\* C6: every emitted group has at least one oracle and one point, its points
\* are strictly ascending, and every oracle has one value per point.
C6_GroupWellFormed ==
  \A g \in GroupIdx :
    /\ Len(grouped_poly_openings_vec_[g].poly_openings_vec) >= 1
    /\ Len(grouped_poly_openings_vec_[g].point_refs) >= 1
    /\ StrictlyAscending(GroupPointSeq(g))
    /\ \A k \in 1 .. Len(grouped_poly_openings_vec_[g].poly_openings_vec) :
         Len(grouped_poly_openings_vec_[g].poly_openings_vec[k].openings)
           = Len(grouped_poly_openings_vec_[g].point_refs)

\* C6 witness: a group of two points whose claims, on one oracle, came in
\* descending order.
C6_Witness ==
  /\ GroupedOnce
  /\ \E g \in GroupIdx : Len(grouped_poly_openings_vec_[g].point_refs) = 2
  /\ Len(poly_openings) = 2
  /\ PointMem(poly_openings[1].point) > PointMem(poly_openings[2].point)
  /\ poly_openings[1].poly_oracle = poly_openings[2].poly_oracle

(***************************************************************************)
(* Properties of the quotient builder.                                     *)
(***************************************************************************)
\* CreateCombinedLowDegreeExtensions has returned for the group q_group
QuotientReturned == q_group # 0 /\ ~aborted

RECURSIVE FPow(_, _)
FPow(r, i) == IF i = 0 THEN 1 ELSE FMul(r, FPow(r, i - 1))

\* Z(X), the vanishing polynomial of the points of the group |g|
VanishingOf(g) == FromRoots(GroupPointSeq(g))

\* C7: CreateCombinedLowDegreeExtensions returns H only when Z divides N
\* without remainder, so that H * Z = N; when the claimed values are not the
\* evaluations it fails instead of returning a quotient.
C7_QuotientExact ==
  QuotientReturned => PolyMul(q_h, VanishingOf(q_group)) = q_n

\* the oracles of the input in the order of their first appearance
RECURSIVE FirstAppearance(_)
FirstAppearance(n) ==
  IF n = 0 THEN <<>>
  ELSE LET before == FirstAppearance(n - 1)
           ov == PolyMem(poly_openings[n].poly_oracle)
       IN  IF ov \in SeqRange(before) THEN before ELSE Append(before, ov)

RECURSIVE Filter(_, _)
Filter(s, keep) ==
  IF s = <<>> THEN <<>>
  ELSE IF Head(s) \in keep THEN <<Head(s)>> \o Filter(Tail(s), keep)
  ELSE Filter(Tail(s), keep)

\* the oracles opened exactly at the points of the group |g|, in the order of
\* their first appearance in the input
ExpectedOracleSeq(g) ==
  Filter(FirstAppearance(Len(poly_openings)),
         {ov \in InputOracleVals : InputPointVals(ov) = SeqRange(GroupPointSeq(g))})

\* sum over i < n of r^i * (P_i - R_i), P_i the i-th expected oracle
RECURSIVE NumeratorSum(_, _, _, _)
NumeratorSum(oracles, ldes, r, n) ==
  IF n = 0 THEN <<>>
  ELSE PolyAdd(NumeratorSum(oracles, ldes, r, n - 1),
               PolyScale(PolySub(oracles[n], ldes[n]), FPow(r, n - 1)))

\* C8: the power of r given to an oracle in N(X) is its index in the group,
\* the groups list their oracles in the order of first appearance in the
\* input, and low_degree_extensions follows the same order.
C8_PowersFollowInputOrder ==
  (QuotientReturned /\ calls = 1) =>
    LET oracles == ExpectedOracleSeq(q_group)
        points == GroupPointSeq(q_group)
    IN  /\ GroupOracleSeq(q_group) = oracles
        /\ Len(low_degree_extensions) = Len(oracles)
        /\ \A i \in 1 .. Len(oracles) :
             /\ Len(low_degree_extensions[i]) <= Len(points)
             /\ \A j \in 1 .. Len(points) :
                  PolyEvaluate(low_degree_extensions[i], points[j])
                    = grouped_poly_openings_vec_[q_group].poly_openings_vec[i].openings[j]
        /\ q_n = NumeratorSum(oracles, low_degree_extensions, q_r, Len(oracles))

\* C8 witness: a group of two oracles whose numerators differ, combined with
\* a challenge whose powers differ, the oracle of the higher address first.
C8_Witness ==
  /\ QuotientReturned
  /\ Len(GroupOracleSeq(q_group)) = 2
  /\ q_r \notin {0, 1}
  /\ poly_openings[1].poly_oracle > poly_openings[2].poly_oracle
  /\ PolySub(GroupOracleSeq(q_group)[1], low_degree_extensions[1])
       # PolySub(GroupOracleSeq(q_group)[2], low_degree_extensions[2])

(***************************************************************************)
(* Properties of the lookup prover.                                        *)
(***************************************************************************)
\* the step taken is the operation |op| of lookup prover |p| (0: all provers)
StepOf(op, p) == last_op' = <<op, p>> /\ pc' # pc

\* the polynomial member and the point of the j-th claim of a row
ClaimMember(j) ==
  << "grand_product_poly", "grand_product_poly", "permuted_pair.input",
     "permuted_pair.input", "permuted_pair.table" >>[j]

ClaimPoint(j) == << "x", "x_next", "x", "x_prev", "x" >>[j]

\* the (polynomial, point) pairs Evaluate wrote to the proof for prover |p|
EvaluatedQueries(p) ==
  LET ByProver(e) == e.kind = "eval" /\ e.prover = p
      entries == SelectSeq(proof, ByProver)
  IN  [k \in 1 .. Len(entries) |-> entries[k].query]

\* C9: Open appends exactly 5 * N claims to the caller's list and leaves the
\* earlier entries alone; for row i they are (Z_i, x), (Z_i, x_next),
\* (A'_i, x), (A'_i, x_prev), (S'_i, x), the pairs Evaluate wrote, in order.
C9_OpenAppendsClaims ==
  [][\A p \in ProverIdx :
       (StepOf("Open", p) /\ ~aborted') =>
         LET N == Len(lookup_provers[p].permuted_pairs_)
             old == Len(openings)
         IN  /\ Len(openings') = old + 5 * N
             /\ SubSeq(openings', 1, old) = openings
             /\ \A i \in 1 .. N : \A j \in 1 .. 5 :
                  LET c == openings'[old + 5 * (i - 1) + j]
                  IN  /\ c.poly_oracle = [prover |-> p, member |-> ClaimMember(j),
                                          row |-> i]
                      /\ c.point = ClaimPoint(j)
             /\ Len(EvaluatedQueries(p)) = 5 * N
             /\ \A k \in 1 .. (5 * N) :
                  /\ EvaluatedQueries(p)[k].member = openings'[old + k].poly_oracle.member
                  /\ EvaluatedQueries(p)[k].row = openings'[old + k].poly_oracle.row
                  /\ EvaluatedQueries(p)[k].point = openings'[old + k].point
    ]_vars

\* C9 witness: the second prover, holding two lookup arguments, has opened
\* after the first one.
C9_Witness ==
  /\ last_op = <<"Open", 2>>
  /\ ~aborted
  /\ Len(lookup_provers[2].permuted_pairs_) = 2
  /\ Len(openings) = 20

\* number of polynomials of the provers before prover |p|, |per| for each
\* lookup argument
RECURSIVE PolysBefore(_, _)
PolysBefore(p, per) ==
  IF p = 1 THEN 0
  ELSE PolysBefore(p - 1, per) + per * Len(lookup_provers[p - 1].permuted_pairs_)

\* the prover that owns the k-th polynomial
OwnerOf(k, per) ==
  CHOOSE p \in ProverIdx :
    /\ PolysBefore(p, per) < k
    /\ k <= PolysBefore(p, per) + per * Len(lookup_provers[p].permuted_pairs_)

\* prover by prover, pair by pair, input before table
PermutedInOrder ==
  [k \in 1 .. PolysBefore(Len(lookup_provers) + 1, 2) |->
     LET p == OwnerOf(k, 2)
         local == k - PolysBefore(p, 2)
         pair == lookup_provers[p].permuted_pairs_[(local + 1) \div 2]
     IN  IF local % 2 = 1 THEN pair.input.evals ELSE pair.table.evals]

\* prover by prover, one grand product per pair
GrandProductsInOrder ==
  [k \in 1 .. PolysBefore(Len(lookup_provers) + 1, 1) |->
     LET p == OwnerOf(k, 1)
     IN  lookup_provers[p].grand_product_polys_[k - PolysBefore(p, 1)].evals]

\* what a commit operation does with the polynomials |polys|
CommitsInOrder(polys) ==
  IF batch_mode
  THEN /\ Len(batch_commits') = Len(batch_commits) + Len(polys)
       /\ SubSeq(batch_commits', 1, Len(batch_commits)) = batch_commits
       /\ \A k \in 1 .. Len(polys) :
            /\ batch_commits'[Len(batch_commits) + k].idx = commit_idx + k - 1
            /\ batch_commits'[Len(batch_commits) + k].evals = polys[k]
       /\ commit_idx' = commit_idx + Len(polys)
       /\ proof' = proof
  ELSE /\ Len(proof') = Len(proof) + Len(polys)
       /\ SubSeq(proof', 1, Len(proof)) = proof
       /\ \A k \in 1 .. Len(polys) :
            /\ proof'[Len(proof) + k].kind = "commit"
            /\ proof'[Len(proof) + k].value = polys[k]
       /\ commit_idx' = commit_idx
       /\ batch_commits' = batch_commits

\* C10: in batch mode the two batch commits give the polynomials consecutive
\* slots from the incoming commit_idx on, one each, never a slot twice, in
\* the order (prover by prover, pair by pair, input before table) in which
\* the other mode commits them to the proof; commit_idx never decreases and
\* ends advanced by the number of polynomials enqueued.
C10_CommitVariantsAgree ==
  [][/\ commit_idx' >= commit_idx
     /\ \A a, b \in 1 .. Len(batch_commits') :
          batch_commits'[a].idx = batch_commits'[b].idx => a = b
     /\ StepOf("BatchCommitPermutedPairs", 0) => CommitsInOrder(PermutedInOrder)
     /\ StepOf("BatchCommitGrandProductPolys", 0) => CommitsInOrder(GrandProductsInOrder)
    ]_vars

\* C10 witness: two provers of two lookup arguments each, in batch mode, have
\* enqueued their permuted pairs and their grand products from slot 1 on.
C10_Witness ==
  /\ batch_mode
  /\ last_op = <<"BatchCommitGrandProductPolys", 0>>
  /\ Len(lookup_provers) = 2
  /\ Len(batch_commits) = 12
  /\ batch_commits[1].idx = 1
  /\ batch_commits[12].idx = 12
  /\ commit_idx = 13

(***************************************************************************)
(* Failure of a subroutine.                                                *)
(***************************************************************************)
\* PermuteExpressionPair returns false for a compressed pair of prover |p|
PermuteFails(p) ==
  \E i \in 1 .. Len(lookup_provers[p].compressed_pairs_) :
    ~PermuteExpressionPair(lookup_provers[p].compressed_pairs_[i])[1]

\* LagrangeInterpolate returns false for an oracle of |group|
InterpolationFails(group) ==
  \E i \in 1 .. Len(group.poly_openings_vec) :
    ~LagrangeInterpolate(CreateOwnedPoints(group),
                         group.poly_openings_vec[i].openings)[1]

\* C11: when PermuteExpressionPair fails in PermutePairs or LagrangeInterpolate
\* fails in CreateLowDegreeExtensions, the step aborts the prover: it produces
\* no permuted_pairs_ and no quotient, writes nothing, and no step follows an
\* abort, so nothing is committed or evaluated into the proof afterwards.
C11_AbortOnSubroutineFailure ==
  [][/\ ~aborted
     /\ (last_op' # last_op /\ last_op'[1] = "PermutePairs"
           /\ PermuteFails(last_op'[2]))
          => /\ aborted'
             /\ UNCHANGED <<lookup_provers, proof, batch_commits, commit_idx, openings>>
     /\ (q_group = 0 /\ q_group' # 0 /\ calls = 0
           /\ InterpolationFails(HandBuiltGroup(q_group')))
          => /\ aborted'
             /\ UNCHANGED <<low_degree_extensions, q_n, q_h>>]_vars

\* C11 witness: PermutePairs aborted on the second compressed pair of a prover
\* after the first pair was permuted; no pair is stored, nothing is committed.
C11_Witness ==
  /\ aborted
  /\ last_op = <<"PermutePairs", 1>>
  /\ Len(lookup_provers[1].compressed_pairs_) = 2
  /\ PermuteExpressionPair(lookup_provers[1].compressed_pairs_[1])[1]
  /\ ~PermuteExpressionPair(lookup_provers[1].compressed_pairs_[2])[1]
  /\ lookup_provers[1].permuted_pairs_ = <<>>
  /\ proof = <<>>
  /\ batch_commits = <<>>

\* the interpolation over a point referred to twice failed
InterpolationAborted == aborted /\ q_group # 0 /\ q_h = <<>>

(***************************************************************************)
(* Properties of the R1CS reader.                                          *)
(***************************************************************************)
\* C12: a Read that returns false leaves header, constraints and
\* wire_id_to_label_id_map as they were before the call.
C12_FailedReadLeavesNoPartialState ==
  [][read_result' = "false"
       => UNCHANGED <<header, constraints, wire_id_to_label_id_map>>]_vars

(***************************************************************************)
(* Properties of the lifecycle of a lookup prover.                         *)
(***************************************************************************)
\* the operation a step of the unordered caller invokes
InvokedOp ==
  IF last_op'[1] = "BatchCompressPairs" THEN "CompressPairs" ELSE last_op'[1]

InPipelineOrder(h) == InOrderLen(OpsOf(h)) = Len(h)

RECURSIVE Held(_)
Held(h) ==
  IF h = <<>> THEN [compressed |-> 0, permuted |-> 0, grand |-> 0]
  ELSE LET before == Held(SubSeq(h, 1, Len(h) - 1))
           last == h[Len(h)]
       IN  IF last[1] = "CompressPairs"
           THEN [before EXCEPT !.compressed = last[2]]
           ELSE IF last[1] = "PermutePairs"
           THEN [before EXCEPT !.permuted = before.compressed]
           ELSE IF last[1] = "CreateGrandProductPolys"
           THEN [before EXCEPT !.grand = before.compressed, !.compressed = 0]
           ELSE before

IsGrandProductOf(z, compressed_pair, permuted_pair, beta, gamma) ==
  /\ Len(z) = DomainSize
  /\ z[1] = 1
  /\ \A j \in 1 .. DomainSize - 1 :
       LET den == FMul(FAdd(permuted_pair.input.evals[j], beta),
                       FAdd(permuted_pair.table.evals[j], gamma))
           num == FMul(FAdd(compressed_pair.input[j], beta),
                       FAdd(compressed_pair.table[j], gamma))
       IN  den # 0 => FMul(z[j + 1], den) = FMul(z[j], num)

\* CreateGrandProductPolys has completed on prover |p|
GrandProductDone(p) ==
  /\ ~aborted
  /\ \/ \E s \in 1 .. pc.stage - 1 : Stages[s] = "grand_product"
     \/ Stages[pc.stage] = "grand_product" /\ pc.p > p

RECURSIVE SequentialDenominator(_, _, _, _, _, _)
SequentialDenominator(permuted_pair, beta, gamma, values, chunks, chunk_size) ==
  IF chunks = 0 THEN values
  ELSE DenominatorCallback(permuted_pair, beta, gamma,
         SequentialDenominator(permuted_pair, beta, gamma, values, chunks - 1,
                               chunk_size),
         chunks - 1, chunk_size)

\* the numerator callback run on the chunks one after the other, in the order
\* of their indices
RECURSIVE SequentialNumerator(_, _, _, _, _, _)
SequentialNumerator(compressed_pair, beta, gamma, values, chunks, chunk_size) ==
  IF chunks = 0 THEN values
  ELSE NumeratorCallback(compressed_pair, beta, gamma,
         SequentialNumerator(compressed_pair, beta, gamma, values, chunks - 1,
                             chunk_size),
         chunks - 1, chunk_size)

\* the vector the current phase started from and the one its sequential run
\* ends with
PhaseInput ==
  IF par_phase = "denominator" THEN [i \in Rows |-> 0]
  ELSE [i \in Rows |->
          FInvOrZero(SequentialDenominator(par_captured.permuted_pair,
                                           par_captured.beta, par_captured.gamma,
                                           [j \in Rows |-> 0],
                                           NumChunks(par_chunk_size),
                                           par_chunk_size)[i])]

PhaseOutput ==
  IF par_phase = "denominator"
  THEN SequentialDenominator(par_captured.permuted_pair, par_captured.beta,
                             par_captured.gamma, PhaseInput,
                             NumChunks(par_chunk_size), par_chunk_size)
  ELSE SequentialNumerator(par_captured.compressed_pair, par_captured.beta,
                           par_captured.gamma, PhaseInput,
                           NumChunks(par_chunk_size), par_chunk_size)

\* the callback of the chunk of |row| has passed |row|
Processed(row) ==
  \E chunk_index \in 0 .. NumChunks(par_chunk_size) - 1 :
    /\ row \in ChunkRows(chunk_index, par_chunk_size)
    /\ row - chunk_index * par_chunk_size <= par_offsets[chunk_index + 1]

\* C15: whatever the size of the chunks and however the workers interleave,
\* an invocation of a callback touches only the entries of its own chunk,
\* at chunk_index * chunk_size + offset: at every moment of a phase each
\* entry its chunk has passed holds the value the sequential run in index
\* order gives it and every other entry holds the value the phase started
\* from, so the phase ends with the vector of the sequential run.
C15_ChunkIndependent ==
  /\ par_phase \in {"denominator", "numerator"} =>
       \A row \in Rows :
         par_values[row] = IF Processed(row) THEN PhaseOutput[row]
                           ELSE PhaseInput[row]
  /\ par_phase = "done" => par_values = PhaseOutput

\* C15 witness: with chunks of two rows, in the numerator phase, the worker of
\* the second chunk has finished while the worker of the first chunk is
\* halfway, and the rows passed have received a new value.
C15_Witness ==
  /\ par_phase = "numerator"
  /\ par_chunk_size = 2
  /\ par_offsets = <<1, 2>>
  /\ par_values[1] # PhaseInput[1]
  /\ par_values[4] # PhaseInput[4]
  /\ par_values[2] = PhaseInput[2]

(***************************************************************************)
(* A grouper used for more than one call.                                  *)
(***************************************************************************)
\* the groups a call produces on its own input: those of a fresh grouper
GroupsOfCall(claims) ==
  CreateMultiPolynomialOpenings(claims, GroupByPoints(GroupByPoly(<<>>, claims).ret))

\* the points a sequence of point references refers to
PointsOf(refs) == {PointMem(refs[i]) : i \in 1 .. Len(refs)}

\* the points of the claims of a call
PointsOfCall(claims) == {PointMem(claims[i].point) : i \in 1 .. Len(claims)}

\* no two groups carry the same point set
OneGroupPerPointSet(groups) ==
  \A g, h \in 1 .. Len(groups) :
    BtreeEq(groups[g].point_refs, groups[h].point_refs) => g = h

\* C16: nothing resets the grouper: every GroupByPolyAndPoints call keeps
\* the groups of the calls before it and appends, in order, the groups a
\* fresh grouper produces on the input of the call, and super_point_set()
\* grows by the points of that input; the groups of a single call carry
\* different point sets.
C16_GroupsAccumulate ==
  [][calls' = calls + 1 =>
       /\ grouped_poly_openings_vec_' =
            grouped_poly_openings_vec_ \o GroupsOfCall(poly_openings')
       /\ PointsOf(super_point_set_') =
            PointsOf(super_point_set_) \cup PointsOfCall(poly_openings')
       /\ Len(super_point_set_') = Cardinality(PointsOf(super_point_set_'))
       /\ OneGroupPerPointSet(GroupsOfCall(poly_openings'))
       /\ calls' = 1 => OneGroupPerPointSet(grouped_poly_openings_vec_')
    ]_vars

\* C16 witness: after two calls the grouper holds a group of the first call
\* and a group of the second call that carry the same point set.
C16_Witness ==
  /\ calls = 2
  /\ ~aborted
  /\ Len(grouped_poly_openings_vec_) = 2
  /\ Len(poly_openings) = 1
  /\ BtreeEq(grouped_poly_openings_vec_[1].point_refs,
             grouped_poly_openings_vec_[2].point_refs)
  /\ ~OneGroupPerPointSet(grouped_poly_openings_vec_)

====
